----------------------------- MODULE ByteStream -----------------------------
(***************************************************************************)
(* What a memory stream promises to its clients: a file of bytes with a    *)
(* position, written either by Write or through the address that           *)
(* GetMemoryInfo lends.  A byte nobody has written is Undef: the stream    *)
(* may return anything for it.  A call that fails writes nothing and, but  *)
(* for CopyTo, moves nothing.                                              *)
(***************************************************************************)
EXTENDS Integers, Sequences

CONSTANTS
  Undef,   (* stands for a byte nobody has written          *)
  Counts,  (* the sizes, positions and lengths of the calls *)
  Texts    (* the sequences of bytes that clients write     *)

VARIABLES
  file,    (* the contents, as a sequence             *)
  at,      (* the position, 0 for the first byte      *)
  ret      (* the last call and what it returned      *)

vars == <<file, at, ret>>

Returns(op, hr, data) == ret' = [op |-> op, hr |-> hr, data |-> data]

Succeeds(op) == Returns(op, "S_OK", <<>>)

Fails(op) ==
  \E hr \in {"E_OUTOFMEMORY", "STG_E_INVALIDFUNCTION", "STG_E_INVALIDPOINTER"} :
    Returns(op, hr, <<>>)

(* The file cut or extended to n bytes: what both sizes have is kept. *)
Resized(n) == [i \in 1 .. n |-> IF i <= Len(file) THEN file[i] ELSE Undef]

Overwritten(f, p, data) ==
  [i \in DOMAIN f |->
     IF i - p \in 1 .. Len(data) THEN data[i - p] ELSE f[i]]

Init == file = <<>> /\ at = 0 /\ ret = [op |-> "", hr |-> "S_OK", data |-> <<>>]

(* The bytes from the position on, as many as asked for or as there are. *)
Length(cb) == IF cb < Len(file) - at THEN cb ELSE Len(file) - at

Delivers(op, n) ==
  /\ Returns(op, "S_OK", ret'.data)
  /\ Len(ret'.data) = n
  /\ \A i \in 1 .. n : file[at + i] # Undef => ret'.data[i] = file[at + i]

Read(cb) ==
  /\ Delivers("Read", Length(cb))
  /\ at' = at + Length(cb)
  /\ UNCHANGED file

(* To another stream, which may fail.  A failure leaves the position anywhere
   behind the old one. *)
CopyTo(cb) ==
  /\ \/ Delivers("CopyTo", Length(cb)) /\ at' = at + Length(cb)
     \/ Fails("CopyTo") /\ at' \in at .. Len(file)
  /\ UNCHANGED file

(* To itself: the position moves over bytes that stay what they are. *)
CopyToSelf(cb) ==
  /\ Succeeds("CopyToSelf")
  /\ at' = at + Length(cb)
  /\ UNCHANGED file

Write(data) ==
  LET end == at + Len(data)
  IN  \/ /\ Succeeds("Write")
         /\ at' = end
         /\ file' = Overwritten(Resized(IF end > Len(file) THEN end
                                                           ELSE Len(file)),
                                at, data)
      \/ Fails("Write") /\ UNCHANGED <<file, at>>

(* A new size.  It may be in force though the call failed. *)
SetSize(n) ==
  /\ \/ Succeeds("SetSize") /\ file' = Resized(n)
     \/ Fails("SetSize") /\ file' \in {file, Resized(n)}
  /\ UNCHANGED at

(* A new position; one behind the end extends the file. *)
Seek(p) ==
  LET extended == IF p > Len(file) THEN Resized(p) ELSE file
  IN  \/ Succeeds("Seek") /\ at' = p /\ file' = extended
      \/ Fails("Seek") /\ UNCHANGED at /\ file' \in {file, extended}

(* GetMemoryInfo shows in nothing but its result. *)
GetMemoryInfo ==
  /\ Succeeds("GetMemoryInfo") \/ Fails("GetMemoryInfo")
  /\ UNCHANGED <<file, at>>

(* Bytes stored from the lent address on. *)
Fill(data) ==
  /\ Len(data) <= Len(file)
  /\ Succeeds("Fill")
  /\ file' = Overwritten(file, 0, data)
  /\ UNCHANGED at

Next ==
  \/ \E cb \in Counts : Read(cb) \/ CopyTo(cb) \/ CopyToSelf(cb)
  \/ \E data \in Texts : Write(data) \/ Fill(data)
  \/ \E n \in Counts : SetSize(n) \/ Seek(n)
  \/ GetMemoryInfo

Spec == Init /\ [][Next]_vars
=============================================================================
