# Verification of OeyEnc

OeyEnc teaches Outlook Express to decode yEnc messages. A loader starts the
mail program with a DLL injected; the DLL hooks the function that creates MIME
message objects and puts an object of its own around each of them; that object
looks for yEnc blocks in what the mail program loads, decodes them and presents
them as attachments. This directory holds TLA+ models of that program, the TLC
runs that check them and the TLAPS proofs about them.

`file:line` refers to the sources, `OeyEnc.Dll/`, `inc/`, `CoJack/` and
`OeyEnc.Exe/`.

## The system

| part | state | operations | interacts with |
|---|---|---|---|
| yEnc decoder, `OeyEnc.Dll/yDecode.h` | none between calls; `ENCODEINFO` per block; input/output pointers and counters in a call | `FindTag`, `DecoderFindEncodedBody`, `DecoderInitialize`, `DecoderProcessBuffer`, `DecoderGetFileName`, `DecoderSerializeEncodeInfo` | called by the message object on raw memory of a stream |
| message object, `OeyEnc.Dll/MimeMessage.cpp` | the wrapped message; in a call the scan position, the list of records, the pending stream | `Load`, `_LoadEncodedStream`, `_AttachStream`, `_CombineRelatedAttachments` | decoder, memory streams, MIMEOLE (COM) |
| memory streams, `inc/StreamImpl.h` | block and its size, size of the stream, position, lock | `Read`, `Write`, `Seek`, `SetSize`, `GetMemoryInfo`, `CopyTo`, helpers `CopyStream`, `GetMemoryStreamForStream` | allocators, MIMEOLE, decoder (writes into lent memory) |
| provider hook, `MimeMessage.cpp`, `Module.cpp`, `DllMain.cpp` | library handle and its count, the original function | `_BindProvider`, `_MimeOleCreateMessage` | CoJack |
| CoJack hooks, `CoJack/Cojack.h` | code of the process, trampoline | `InstallProcedureHook`, instruction relocation | every thread of the process |
| CoJack injection, `CoJack/Cojack.h`, `CjStartup*.asm` | memory and threads of another process, an event | `ResumeProcessWithModule`, `LoadLibraryInProcess` | loader, new process |
| loader, `OeyEnc.Exe/WinMain.cpp` | tokens, profile, process handles | `_LogonIdentity`, `_CreateOeProcess`, `_tWinMain` | Windows, CoJack injection |
| bootstrapper, installer, `ObjEx`, resources | - | packaging and build | not modelled |

What is hard about each part, and where, is listed under `hazards` in
`PROJECT.json`. In short:

* **Decoder.** Pointer arithmetic over text that comes from strangers. A counter
  that runs ahead of its pointer reads behind the block; a wrong idea of where a
  line starts ends the data early. It is correct if it reads its block only,
  yields exactly the data bytes of a well-formed block, and returns.
* **Message object.** Two loops with some thirty failing calls, whose only
  answer to failure is to load the message again from the start. It is correct
  if no line of the message is lost or shown twice, if what is decoded is
  exactly the blocks that are there, and if failure never leaves a message half
  built.
* **Memory streams.** The size of the stream and the size of its memory are
  different numbers that move at different times, in 32 bits, over allocators
  that fail in different ways. They are correct if a client cannot tell them
  from a file and no access leaves the memory there is.
* **Hooks, injection, loader.** Patching code other threads may run, rewriting
  relative jumps, handing memory to another process that outlives the call,
  cleaning up after each of many steps.

## Modules

```
TagSearch                 FindTag and its wrappers
  ProcessBuffer           DecoderProcessBuffer, step by step
    YEncDecoding          what the call promises, defined on the whole block
      YEncEncoding        what an encoder writes
        MCProcessBuffer     instance for TLC
        ProcessBufferProofs theorems

ByteStream                a file of bytes (abstract)
MemoryStream              CMemoryStreamT; INSTANCE ByteStream as its refinement
  MCMemoryStream          instance for TLC
  MemoryStreamProofs      theorems, the refinement of ByteStream among them

StreamLock                the lock of CMemoryStreamT, threads that share streams
  MCStreamLock            instance for TLC
  StreamLockProofs        theorems

MessageLoad               Load, _LoadEncodedStream, _AttachStream
  MCMessageLoad           instance for TLC
  MessageLoadProofs       theorems

EncodeInfo                the ENCODEINFO record and what is computed from it
  HeaderParse             one block from its header to its attachment
    MCHeaderParse         instance for TLC
    HeaderParseProofs     theorems

Combine                   _CombineRelatedAttachments, _AppendTextStream
  MCCombine               instance for TLC
  CombineProofs           theorems

Relocation                sizes of instructions, displacements
  HookInstall             DllMain, _BindProvider, InstallProcedureHook, callers
    MCHookInstall         instance for TLC
    HookInstallProofs     theorems

Launch                    _tWinMain, both injections, the code they inject
  MCLaunch                instance for TLC
  LaunchProofs            theorems
```

### ProcessBuffer: the decoding loop

One behaviour is one call of `DecoderProcessBuffer` (`yDecode.h:1923`). `pc`
says which loop runs: `"line"` is the head of the outer loop, `"data"` the body
of the inner one, `"trailer"` what follows the loops. `pos` is `pbBufIn` minus
its start and `left` is `cbBufIn`, an unsigned counter of `W` bits; the two are
separate in the code and in the model because they can disagree. `out` is what
was written (its length is `SizeActual`), `call` the arguments. There is one
action per branch: `EndOfData`, `StartLine`, `CarriageReturn`, `LineFeed`,
`PlainByte`, `EscapedByte`, `Exhausted` (a counter is zero), `ReadTrailer`.
`AccessViolation` is the read of a byte that is not mapped; `call.mem` is
longer than the block because a block lies in the text of a whole message. The
values of the trailer attributes are left out: the release build compares them
with nothing.

`TagSearch` models `FindTag` with its single pass and its reset without retry
(369), because the trailer searches use it: `Matched` is the code's `jdx` after
each byte. What it should find is said apart from the code: the places where the
tag stands (`Occurrences`), of which a search for a line has the first.

`YEncDecoding` says what the call should do, on the block as a whole: which
bytes of the block are escapes, where lines start, where the first `=yend` line
is, and what the bytes up to each position decode to (`Content`), with no
counters, no room and no line breaks to skip. `YEncEncoding` is the other end: the
bytes of a payload with the offset added, escaped where they would mean something
in a line, a line break after so many of them, and a `=yend` line. The repository
has no encoder; this one does what the decoder takes back (1943-2024).

### MemoryStream: the streams

A call is one step, as each runs under the lock of the object (`StreamLock`) or,
over the COM allocator, on one thread. `block` is `_pbData` with its true size; `cbData`,
`cbSize`, `pos` are `_cbData`, `_cbSize`, `_iPosCur`. The helpers
`_EnsureBufferSize` and `_SetSize` are operators that give the set of possible
outcomes, one for each answer of the allocator. Two differences between the
allocators matter and are kept: fresh memory is cleared or not, and when there
is no memory one returns NULL and the other the old block. `written` and `lent`
are history variables: which bytes clients have stored, and how much memory the
address from the last `GetMemoryInfo` has. `stray` records an access outside
the block, or in front of the buffer of the caller. `Fill` is the client that
stores through the lent address: the decoder (`MimeMessage.cpp:1700`).

`CopyTo` reads a full buffer in each round, also when fewer bytes were asked
for: it then fails with the position moved. `CopyToSelf` is its branch for the
stream itself (464). The lock that both keep on some exits is the matter of
`StreamLock`.

`M` stands for 2^32; `Buffers` the sizes of the buffer of `CopyTo` (a page, or
512 bytes without memory); `MinAlloc` and `Slack` are the constants of the growth
rule. `AnyRead` says whether clients read at a position without memory behind
it; the calls in this code do not.

`ByteStream` is the abstract specification: a sequence of bytes and a position,
calls that do what COM says or fail without effect. A byte that nobody stored is
`Undef`, and `Read` may return anything for it, because shrinking and growing
the size brings old bytes back (`_SetSize` does not clear). The refinement
mapping takes the written bytes of the block for the file.

### StreamLock: streams that threads share

The streams over `VirtualMemHeap` have a critical section each
(`CComMultiThreadModel`, 112): `owner` and `depth`. A thread is in a call of its
`stream`, or in `CopyTo` from its `stream` to `pstm`. `Enter` and `Leave` are the lock
and the unlock of `Read`, `Write`, `Seek`, `SetSize`, `Stat` and `GetMemoryInfo`; what
a call does in between is the matter of `MemoryStream`. `CopyTo` (421) is
`EnterCopy`, then rounds of `ReadRound`, `WriteLock` (the `Lock` in the `Write` of the
destination, 284) and `Written`, and its ways out: `Copied` with `Unlock`, and
`CopyToSelf`, `ReadTooMuch` and `WriteFails`, which jump behind it (`Keep`). `kept`
counts those, up to `MaxKept` for each stream. How many rounds a copy has is left
open, so nothing is said here about its end, nor about positions. A stream over the COM allocator has no lock and is
documented as not thread safe (815).

### MessageLoad: a message becomes a message with attachments

The text of a message is a sequence of lines, of kinds that the decoder tells
apart: a header of either version, one that `DecoderInitialize` refuses, one
whose size is impossible for its block, `=yend`, a line that decodes, a line
that does not, in lines that end in `\r\n`. What a block decodes to is the
matter of `ProcessBuffer`; here only success and failure count, and both are
possible for a block that has swallowed the header of another one. `pc` walks
through `Load` (`MimeMessage.cpp:194`) and `_LoadEncodedStream` (1225):

| `pc` | action | lines |
|---|---|---|
| load | `Load`: headers, the X-OeyEnc and subject tests | 217-295 |
| combine | `Combine`: outcome of `_CombineRelatedAttachments` | 242-273 |
| source | `GetSource`: source as memory, skip headers | 1249-1300 |
| scan | `Scan`: one round of the search for blocks | 1303-1377 |
| headers | `LoadHeaders` | 1431-1557 |
| text | `TextBetween` | 1570-1621 |
| decode | `DecodeRecord` | 1623-1858 |
| attach | `AttachRecord` | 1864-1933 |
| trailing | `TrailingText` | 1937-1984 |
| commit | `Commit` | 1989-2019 |
| fallback | `Fallback`: rewind, load the source | 322-328 |

`Failures` is the set of calls that may fail; a failure can strike at any round.
`"Decode"` is the access violation of `ProcessBuffer`, which the handler of the
function turns into a failure. When attaching fails the body may already be in
the message (`_AttachStream` sets properties after adding it). The load of the
source through MIMEOLE in `Fallback` is taken to replace what the message
holds. Left out: the optional report (1754-1768), content types, part numbers.

### EncodeInfo and HeaderParse: one block and its attachment

A block is cut into lines, its text into tokens: a tag with a value, at the
place where the text has it, so that a tag in the file name, in the data or in
the wrong line is a token like any other. Lines and tokens have positions, counted
from the space behind `=ybegin`, as the searches are ranges of bytes and three of
them are not the rest of the block. `size=` is searched in as many bytes as there
are behind `line=`, but from the start of the line (`SizeWindow`, 1528); `comp=` in
the first `MAX_PATH` bytes; `crc32=`, `pcrc32=` and `part=` of the trailer up to the
length of ` size=` before the end of the block, since the count is lowered while the
pointer stays (`TrailWindow`, 2048). That search begins where the decoding loop has
stopped, which is in the data when the output is full (`data.at`). `HeaderParse` walks through
`DecoderInitialize` one attribute per step (`Version`, `Line`, `Size`, `Part`
... `Data`, `yDecode.h:1440-1897`), because each search starts where the last
one left `pbLine`, and then through the loop of `_LoadEncodedStream` for one
record: `Subject`, `Prepare` (the size of the stream and its limits), `Decode`,
`Trailer`, `FileName`, `Attach`.

`EncodeInfo` has the pure parts: the record (a function on the set of its valid
members, `EncodeFlags`), part sizes with their wrap, the numbers of the subject,
the name that `DecoderMakeFileName` builds with its limit `MAX_PATH`, the test of
checksum and size in `DecoderGetFileName`, and the text of the X-OeyEnc header
written and read back. Integers are cut to the width of their member (`Mask`)
before anything looks at them, as in the code. A name is a stem, an extension
and whether it is Unicode. A checksum is a number, which may be 0: `BadCrc` uses 0
for "nothing to mark", as the code does, so data with that checksum is never marked.
The stored attributes are searched by tags without their space (`IsFoundIn`): in
other tags and in the text of the name, whose tags `TagsIn` gives. Left out: the
computation of the checksum, text encodings, headers of neither version,
`EIF_UNICODE`, the buffers for one line. Lines end in `\r\n`; the data is one line
here, whose own lines may end in a bare `\r` too. A bare line feed, which makes the
counter run ahead, is the matter of `ProcessBuffer`.

### Combine: parts become one attachment

An attachment is an index in the list that `GetAttachments` gives, with a kind
and a name. `pc` follows the two loops (`MimeMessage.cpp:2178-2525`): `Inline`
appends a text body, `Group` makes an entry of the list the head of a group,
`Gather` and `Skip` are the two outcomes of one round of the inner loop,
`Attach` ends a group. `entries` are the entries that are not NULL yet; an entry
is cleared before its data is read. `Related` says which name contains which,
the test of `StrStrI` that joins parts. Every call of MIMEOLE may fail, up to
`MaxFailures` in one load. `Deliver` is what `Load` does with the result.

### Relocation and HookInstall: the patch

An instruction is a row of the opcode tables (one of each kind), its prefixes
and the fields of ModRM and SIB. `SizeOf` is the size that
`_RelocateInstructionStream` computes, from the same parts in the same order;
`TrueSize` is the size by the format of the processor, defined apart from the
code and used only to say what is right. `RecalculateDisplacement` has its
comparisons as they are written, the double `LONG_MIN` (3438) included.

`HookInstall` has one action per write or system call of `InstallProcedureHook`
(3868-4015), with the steps of `DllMain` and `_BindProvider` around it, and
threads that call the procedure meanwhile, instruction by instruction:
`Call`, `RunSource`, `RunGate`, `RunHook`, `Return`, `Crash`. `hook` is the
procedure and where it lies: its code, the chain of jumps in front of it, the
bytes to the end of its page, the room in the gate. Bytes are known by their
offset, so a thread is at an offset, and it crashes when the offset is inside
the bytes that were overwritten. A procedure is not empty and does not end in
the middle of an instruction (`CodeAssumption`). The processor, the page protection and the
callers are external. Uninstalling is not modelled: `UninstallProcedureHook`
returns `ERROR_INVALID_FUNCTION` (4017).

### Launch: the loader and the code it starts elsewhere

`pc` follows `_tWinMain` (`WinMain.cpp:728-974`) through its two ways: a thread
in a mail program that runs (`Open`, `Inject`, `WaitThread`), or a process of
its own (`LogOn`, `Prompt`, `LogOnIdentity`, `GetOePath`, `CreateOeProcess`,
`Prepare`, `Resume`, `WaitEvent`, `Terminate`). `request` is how the loader was
started and the machine it was built for. `userName` says if `g_szUserName` is not
empty: the prompt replaces it by what was typed, also when `LogonUser` did not
answer (577, 603), and `CreateOeProcess` goes by it. `process` has for both processes
the state, the exit code, the account, whether the DLL is loaded, the memory with the
code and how far that code is. The code in the other process (`CjThread.asm`, `CjStartup4.asm`) makes one
call per action: `RemoteLoad`, `SetEvent`, `CloseEvent`, `FreeMemory`,
`ThreadReturn`, `GiveUp`. What the thread returns is what the assembly computes, not
what its comment says ("Get the cause of the failure"): an `xor` stands between the
test of the result and the jump that depends on it (`amd64/CjThread.asm:65-67`,
`i386/CjThread.asm:65-67`). The 64-bit thread always returns 0, also when the DLL was
not loaded; the 32-bit one always returns the last error, also when it was. Either process may exit between any two steps, and
`Crash` is the execution of memory that was freed. In 32-bit code the label
`CjSRFailure` has no instructions (`i386/CjStartup4.asm:99`) and control runs
out of the routine; as in 64-bit code the process ends with an error, there by
an exception. Not modelled: handles, and the text of messages.

## Runs

| run | question | result |
|---|---|---|
| `process_buffer` | Does the decoder keep to its block, decode it, undo an encoder, return? | holds |
| `bare_line_feed` | "any of \r\n, \r, \n are accepted" (`yDecode.h:1969`) | violated |
| `memory_stream` | Is the stream a file, and does it stay in its memory? | holds |
| `virtual_out_of_memory` | lent memory is "actually backed up" (`StreamImpl.h:614`) when VirtualAlloc fails | violated |
| `unbacked_read` | "data is simulated by filling the read buffer with 0" (`StreamImpl.h:722`) wherever a read starts | violated |
| `stream_lock` | Is a stream that threads share locked while it is used, unlocked after it, and does nobody wait in a circle? | holds |
| `header_parse` | Which blocks are read as they were written, are sizes bounded, which damage shows in a name, which names join, what does the stored header give back? | holds |
| `combine` | Is no part in two bodies, none lost without a failure, are exactly the related ones joined? | holds |
| `hook_install` | Does the procedure still do what it did, is every call after the patch hooked, does no jump lead nowhere? | holds |
| `launch` | Does success mean the DLL is loaded for the right account, is no process left without it, does nobody run freed code, does the loader end? | holds |
| `message_load` | Is no line lost, no message left half built, every block where it belongs, does Load return? | holds |
| `first_bad_block` | a bad block "will simply end up as a text attachment" (`MimeMessage.cpp:1339`) | violated |

**Properties that hold.**

* `KeepsToTheBlock`: if every line feed of the block ends a `\r\n`, pointer and
  counter always add up to the block and there is no access violation.
* `DecodesTheBlock`: a well-formed block with such line ends yields exactly its
  data bytes, up to the room in the output, and success. `RoundTrip`: what an
  encoder wrote is the payload again, also when it is empty and when the output has
  exactly the room it needs. `TagsAreFound`: in one pass, without a second look at a
  byte on which a match ends, `FindTag` finds the first line that starts with the
  tag, and the first attribute unless the text in front of it is how its tag begins.
* `Returns` (decoder): every call returns, bare line feeds included.
* `StaysInBuffers`, `LentMemoryIsBacked`, `IsAFile` (refinement) for the stream.
* `LockedWhileUsed`: who works on a stream has its lock, in the write of a copy
  between two streams too. `OnlyFailuresKeep`: a stream is locked as often as it is
  used and as copies have failed. `NoDeadlock`: copies in one direction close no
  circle of waiting threads; excluded is waiting for a lock that was lost. With
  copies in both directions two threads do wait for each other (the mutant of
  `CallCopyTo`), as `CopyTo` holds one lock while it takes the other.
* `NothingIsLost`: the bodies of a message tile its text from the first
  accepted block to the end. The property excludes a failing `SetSize`: the code
  then leaves the loop with `break` (1682) and attaches the text behind the
  last block a second time. The streams of this code do not fail that call for
  the sizes that get there.
* `AllOrNothing`: a message is delivered in pieces only if nothing failed but
  what the code has a default for.
* `MarkedIffDecoded`: one X-OeyEnc header for each body decoded under its name.
* `BlocksAsWritten`: on a regular message without failures, exactly the blocks
  a reader sees are the blocks, decoded when they can be.
* `Returns` (Load).
* `ReadsWhatWasWritten`: a block as an encoder writes it, whose numbers the
  subject repeats or leaves out, is accepted if and only if its `size=` is in reach
  (`SizeInReach`: no less stands behind it than in front of the value of `line=`),
  and the record then holds exactly what was written, but for a `pcrc32=` out of
  reach at the very end of the block (`OutOfReach`). A short block with other
  attributes before `line=` is refused for that reason. `crc32=` and `part=` cannot
  be lost so: `crc32=` of a block as written is found from its header already, and
  `part=` repeats the header.
* `StreamIsBounded`: the memory asked for is at most twice what the encoded data
  can fill, also when `begin` is larger than `end` and the difference wraps. It
  says nothing of a block in which no data was found.
* `DamageShowsInTheName`: a block as written whose size or checksum is not the
  written one is marked in its name, and no other is. Two cases are excluded, each
  only with the right size: the computed checksum is 0, which the code cannot tell
  from one that agrees (924), and a checksum of the part that is out of reach (an
  intact part may then be marked, as the checksum of the file is taken for its own).
* `PartsAreJoined`: each part's name carries the marks of its own damage. The name of
  a first part begins that of a part if their marks are the same, and otherwise only
  when the first part has none and its name is a bare stem, so that marks can follow.
  A damaged part is therefore not joined to an intact first part, although the
  names are made to be compared. The length that is reported for the name leaves
  the part number out. `Combine` takes this for its `Related`.
* `StoredAttributesReadBack`: size, total, checksum and name are read back from
  the X-OeyEnc header as they were, where the comment (1168-1172) promises a matching
  record. A number that was not stored is read from the name if the name has its tag
  (`subtotal=9.xls`), and from nowhere else.
* `NoPartTwice`, `LostOnlyOnFailure`: a part is in one body; in a message that is
  delivered it is missing only if a call about it, its group or its text failed.
  (Such a failure is forgotten by the next call that works, so the message is
  delivered all the same: 2524.) `JoinedByName`, `RelatedAreJoined`: a body has
  only parts whose names contain its own, in the order of the list, and of two
  such parts the second is in the body of the first, or in an earlier one.
* `EntireInstructions`, `SameFunction`: of a procedure that the decoder reads as
  the processor does, entire instructions are moved, and a call that returns has
  executed each of them once and in order. `ReadRight` names what is excluded:
  operands with SIB base 5 and a displacement (counted by `GetSizeOfSIB` and by
  `GetSizeOfModRM`, so the copy ends inside an instruction, although entire
  instructions are promised at `Cojack.h:71`), segment and other prefixes that
  the tables list as instructions, three combinations of prefixes in 64-bit
  code, and procedures shorter than the jump that do not end in a return, behind
  which the decoder reads on.
* `LaterCallsAreSafe`: a call that begins after the patch does not crash. Threads
  that are inside the bytes may; the code does not stop them.
* `EveryLaterCallIsHooked`: excluded are chains with a short jump backwards, read
  as an unsigned byte (3844), and, in 64-bit code, indirect jumps and jumps
  with 16 bits.
* `HookNeverDangles`: a DLL that is unloaded has left no jump to itself, unless
  restoring the protection failed after the patch, or the bytes to fill lie on
  two pages.
* `GateIsNotOverrun`: gates of at least 15 bytes are not overrun; for smaller
  ones the room wraps (3924). The gate in this code has 64.
* `NoErrorMeansDone`: after a loader without an error the DLL is in a mail program,
  and one that was created runs under the account that was asked for. The exceptions
  are named: two calls that fail without an error, a mail program that ends with code
  0 while the loader waits, a 64-bit thread that returns 0 although `LoadLibraryW`
  failed, and, for the account, a user who empties the name while `LogonUser` fails for
  another reason than the password. That a 32-bit loader may report an error although
  the DLL was loaded is in the model; no property excludes it.
* `NeverWaitsInVain`: while the loader waits, what it waits for has happened or can
  still come, from code that runs in memory that is there.
* `KeptOnlyWithTheDll`, `LoadedIsNotKilled`, `NeverRunsFreedMemory`,
  `RoutineCleansUp`, `LoaderEnds`: what the last one excludes is `ResumeThread`,
  whose result nobody looks at; the loader then waits for ever.

**What the violations show.** A bare line feed takes the next byte along; a
failed VirtualAlloc is taken for success; a read behind the allocated memory
clears bytes in front of the caller's buffer; text and bad blocks in front of
the first good block vanish from the message. `findings` in `PROJECT.json` has the
lines. Three more places are in the models, without a run of their own. In a truncated
message there is a block without a tail, which an assertion excludes ("can't get
one without the other", `MimeMessage.cpp:1319`): the message is loaded undecoded by
way of an access violation. And a stream that is called thread safe
(`StreamImpl.h:827`) stays locked after a copy that fails, as each does that reads more
than it was asked for, and after every copy to itself: in `StreamLock` `kept` is then
not 0, and every other thread waits (`LostLocksStayLost`). The thread of `CjThread.asm`
disagrees with its comment, as said above; `NoErrorMeansDone` names the effect.

**Bounds.** A byte of `MCProcessBuffer` has 12 values, enough for every
critical character, its escaped form, and ordinary ones; a tag has three
characters instead of six, which makes "too short for a tag" happen often; any
text of up to `MaxBody` = 4 characters is followed by each kind of trailer, so
that a line break, an escape or a tag stands at every boundary; the counter has
5 bits, more than the longest block, so that only a true wrap wraps. In
`MCMemoryStream` sizes have 3 bits and blocks at least 2 bytes, so that all
branches of the growth rule, the wrap of the growth and every limit are within
reach of a few calls. `MCStreamLock` has three threads and three streams, enough for
a circle of three, copied in one direction, and one lost lock per stream.
`MCMessageLoad` has every text of up to `MaxLines` = 4
lines and every text of up to `MaxPieces` = 4 pieces (a line of text, complete
blocks of each kind, a header without an end): text before, between and behind
two blocks needs four or five; lost ends next to whole blocks need three.
`MCHeaderParse` has integers of 5, 3 and 2 bits, so that every limit and wrap is
a value or two away, a `MAX_PATH` of 12, and blocks that differ from a regular one in
one thing: a number (at every place and on both sides of its limits), the place of a
line, the parts, the name. An attribute takes three bytes, a large checksum four, so
that attributes before `line=` or a checksum at the end (`Late`, `Parts`) are in
reach or out of it by one. Checksums are 0, 1 and 2, computed ones among them; one stem
has a tag in it. `MCCombine` has every list of up to three attachments of
five kinds and every list of four with three names, with two failures: a group
of two and one between them needs three. `MCHookInstall` has every row of the
tables with the forms of its operand as the first instruction, and prologues as
compilers write them with a thread that calls at any moment. `MCLaunch` has
every way to start the loader, for both machines, and every set of failing calls; a wrong password
may be given twice.

**Fairness.** The decoder and `Load` run on one thread to the end: weak
fairness of the next step. In `MessageLoad` the fair step is one that fails no
call, since nothing makes a call fail. The stream has no liveness property. In
`Launch` the loader and the code in the other process are threads of a system
that runs every thread that can run: weak fairness of each, again of steps that
fail no call. Nothing makes a process exit, so `Exit` has no fairness.

**Deadlock** is not checked where a behaviour is one call, which ends, and not in
`StreamLock`, where locks that were lost may stop everybody: there `NoDeadlock`
says what is excluded.

## Proofs

The theorems hold for every value of the constants that satisfies the named
assumptions of the modules. `TypeCorrect` of a module is its `TypeOK`; where the
types are widths of the code that can be missed (`HookInstall`, `EncodeInfo`) the
runs check it too.

* `ProcessBufferProofs!TypeCorrect` and `StaysInTheBlock`
  (`Spec => []KeepsToTheBlock`). The invariant is not inductive alone: after a
  `\r` the loop looks at the next byte, so a block without bare line feeds is
  only decoded safely if the loop never stands between a `\r` and its `\n`.
  `IInv` adds that (`NotInsideLineBreak`) and that the counters add up;
  subtraction modulo 2^W is exact as long as they do (`MinusExact`).
* `LaunchProofs`: `TypeCorrect`, `SuccessMeansDone`, `NoProcessWithoutTheDll`,
  `NoLoadedProcessIsKilled` and `CodeOutlivesItsThread`, that is all safety
  properties of the run `launch`, for any requests, failures and number of
  prompts. The properties speak of the end; the inductive invariant says how far
  the created process can be at each step of the loader (`CreatedInStep`), what
  the routine in it has done (`CreatedRoutine`: a set event means a loaded DLL),
  the same for the thread in the other process (`ExistingThread`), and what is
  known where the loader turns to its end (`Ends`).
* `MemoryStreamProofs!TypeCorrect`, `StreamStaysInBuffers`,
  `StreamLendsItsMemory`. The last two assume `Reliable`: VirtualAlloc does not
  fail and clients read where there is memory; the violation runs show that
  neither can be dropped. The inductive invariant adds `Backed`: the stream
  never believes in more memory than the block has. The heart is a lemma
  about `_EnsureBufferSize`: its outcomes keep the block's type and, if
  reliable, give the room asked for (`EnsuredBuffer`).
* `MemoryStreamProofs!StreamIsAFile` (`Reliable => (Spec => IsAFile)`): each
  action of the stream is the action of `ByteStream` of the same name, with an
  argument found from the outcome (`Read` of what was left, `SetSize` of 0 for a
  size that was refused). What the file holds depends on block, size and the
  positions written (`FileOf`); two lemmas about it carry the steps: a block that
  kept what was written shows the file cut or extended to the new size
  (`ResizedFile`), and bytes stored in the block are stored in the file
  (`StoredFile`). The rest is the invariant above.
* `StreamLockProofs`: `TypeCorrect`, `LocksExclude`, `OnlyFailuresLoseLocks`, for any
  number of threads, streams and lost locks. To a stream a step does nothing, or it
  is one of three: a lock by a thread outside, an unlock or a failure by a thread
  inside (`StreamStep`, one lemma per action). Each keeps the account that
  `LockedWhileUsed` and `OnlyFailuresKeep` make together (`AccountIsKept`); neither is
  inductive alone. `OneDirectionNeverBlocks` (`Ordered => (Spec => []NoDeadlock)`): who
  waits for a waiting thread waits for the stream that this one copies from, so what
  is wanted goes down in rank (`WaitsGoDown`), and of the threads that wait one wants
  a stream of least rank. `Ordered` says that a copy goes down in some order of the
  streams. `LostLocksStayLost`: a stream with a lost lock never changes hands again; the
  unlock of the last call inside it takes its count down to the locks that are lost,
  never to zero.

* `CombineProofs!NoPartIsUsedTwice` and `CombinedAttachmentsBelong`
  (`NoPartTwice`, `JoinedByName`), for every list and any failing calls. The
  invariant says of every combined attachment, and of the group that is being
  gathered, that its pieces ascend, have names that contain its name, are no
  longer in the list and were not put into the text, and that no two of them
  share a piece; and that what was put into the text is no longer in the list.
  Each part holds only because an entry is cleared before its data is read
  (`MimeMessage.cpp:2424`) or once its text was read. Ascending pieces cannot
  repeat, which is what `NoPartTwice` needs.

  `AttachmentsAreLostOnlyOnFailure` (`LostOnlyOnFailure`) needs an account of
  every attachment at every step (`Accounts`): it is still in the list, in the
  text, in the group being gathered or in a body, a call about it has failed, or
  its group was lost. `RelatedFilesAreJoined` (`RelatedAreJoined`) needs what a
  search leaves behind (`Swept`): every body was named by some attachment, and
  from there on every related one that no failing call missed is off the list
  and in no later body; `Sweeping` says the same of the search under way, up to
  its index. TLC checked both invariants before they were proved.

* `MessageLoadProofs`: all safety properties of `message_load`, for messages of
  any length. `Types` (records are blocks in the order of the text, behind the
  scan) is inductive. On it rest four more invariants: `Unfailed` for
  `DeliveredAllOrNothing`, `MarkedIffDecoded` itself for `MarkedAsDecoded`,
  `Covered` for `NoLineIsLost` (the bodies so far tile the text from the first
  record to `pbText`), and `Exact` for `RegularMessagesAreDecoded` (the records
  are the blocks a reader sees, as far as the scan is, and the bodies are those
  blocks and the text between).

* `HookInstallProofs`: all properties of `hook_install`, for any procedure, chain
  of jumps and number of threads. `Installation` says what is in the gate and in
  the procedure at each step; from it follow `GateNotOverrun` and
  `NoDanglingHook`. `Threading` says of every thread, in the procedure or in the
  gate, that it has executed the instructions that end at or before its offset,
  each once (`TypeCorrect`, `FunctionKept`). `Hooked` and `Safe` say where a
  thread that started late can be (`LaterCallsHooked`, `LaterCallsStaySafe`).
  `WholeInstructions` rests on `SizesAgree`: what the decoder computes from the
  tables is the size by the format of the processor, for every instruction that
  `ReadRight` admits. This theorem and `LaterCallsStaySafe` assume `Apart`: no
  distance from the gate fits a displacement of one or two bytes, which is so as
  the gate lies in another module, and none is `LONG_MIN`, the only distance for
  which the code (3438) takes four bytes. Where a displacement fits, the model
  counts the rewritten instruction as garbled, and both properties would fail.
  The run `hook_install` satisfies `Apart`.

* `ProcessBufferProofs!BlockIsDecoded` (`DecodesTheBlock`): every well-formed
  block whose lines end in `\r\n` or `\r` decodes to its content. The invariant
  `Decoding` relates the loop to the block: the head of the outer loop is at the
  start of a line and the inner loop never at the first trailer; the byte before
  `pos` escapes nothing; `out` is `Content[pos]`; and the loops end only at the
  trailer or with the output full. There is one lemma per action. `SizeFound` says
  that the search for ` size=` finds the tag from wherever the loops have ended:
  although `FindTag` resets without retry, a tag that is found behind a line
  break is found from in front of it as well, as the tag contains no line break
  (`FoundBehind`; `TagAssumption` says so of ` size=`).

  `EncoderIsUndone` (`RoundTrip`): what an encoder writes for a payload, of any
  length, with any offsets and lines, is well-formed and has the payload for its
  content (`TextEncodes`, byte by byte: before each of them the encoded text decodes to
  the payload so far and no escape is pending). `EncoderAssumption` is what makes it an
  encoder: an escape is no line break, and a byte that was escaped is neither a line
  break nor a `y`. yEnc satisfies that: its escape is 61, and its critical
  characters 0, 10, 13 and 61 become 64, 74, 77 and 125. The rest is `BlockIsDecoded`.

  `SearchIsRight` (`TagsAreFound`), for every block and any tags without line breaks.
  What is matched at a byte is the end of the text so far (`MatchedStands`), so what is
  found is the tag (`FoundOccurs`); and where no beginning of the tag stands in front
  of it the match starts afresh at its first byte and reaches its last
  (`ClearIsFound`). At the start of a line nothing can have begun, as a tag has no
  line break (`ClearStart`).

* Ends. `CallsEnd` (`ProcessBufferProofs`), `LoadsEnd` (`MessageLoadProofs`),
  `CombiningEnds` (`CombineProofs`) and `EverybodyEnds` (`LaunchProofs`) are the part
  of termination, of `Returns` and `LoaderEnds` among it, that needs no fairness: a number `Ahead`, never below zero, which every step lowers. For a
  decoding call it is twice the bytes that are mapped and not consumed, and what is
  left of the round: it goes down although `cbBufIn` may wrap. For a load it begins
  at four times the lines and ten more: a round of the scan takes at least a line,
  which is what `Scan` owes to the tail of a block lying behind its head. For
  the nested loops over N attachments it begins at N²+4N+6: a pass over the list for
  each entry that may still name a group. For the
  loader it is the steps it has left and what the two processes can still do. No
  behaviour is longer than that; that each goes on to its end is fairness, and TLC's.
  `NoWaitIsInVain` (`NeverWaitsInVain`) is the other half of `LoaderEnds` that an
  invariant can say: `Waits` records where the code in the other process is while the
  loader waits.

* `HeaderParseProofs`: all properties of `header_parse`, for every block, subject,
  width of the integers and length of a name. `IInv` says that types are kept,
  that the stream is made with the line and the record it is measured with
  (`MemoryIsBounded`), and which record the name and the stored text are made
  from. `PartsHaveOneName` and `StoredIsReadBack` then speak of a state, and rest
  on lemmas about the pure parts: room and text of a buffer add up to its size
  after every piece (`WriteBuffer`), a piece that finds room behind a mark finds
  it without (`WriteMore`), a name is the sequence of its pieces (`TextOfName`), of
  which one begins another as `PartsAreJoined` says (`JoinedNames`), what is
  stored has one field for each flag (`SerializedFields`) with the name last
  (`NameComesLast`), and a tag is found in its own field or, without one, in the name
  (`FieldFound`; `crc32=` is also found in `pcrc32=`, which the program does not
  store). `Reading` says for a block as written what the record holds before each
  step, and that the block was accepted so far exactly if its `size=` is in reach
  (`Accepted`): each search finds the token that is meant (`FindWritten`) if the token
  is within the bytes that are searched, as lines come one after the other and hold
  each tag once; the subject and the trailer repeat what is there
  (`SubjectAgrees`, `FindInTrailer`), and where the search of the trailer begins does
  not matter, as it is behind everything in the header (`BehindTheData`).
  `WrittenIsRead` and `DamageIsSeen` follow, the latter as the
  difference of a written `end` and `begin` does not wrap (`SizeIsWritten`).
  Assumed are the relations of the limits of the code: the integer types get
  wider, `MV_LINEMAX`, `MV_OFFSET` and the smallest stream fit theirs; checksums are
  any natural numbers.

Escapes, content, the search, the offsets of instructions, the fields and the
length of a name are recursive functions. The theorems of the library about such
functions take operators as parameters, which the provers cannot use. In their
place each module proves from the well-foundedness of `<` that a set of numbers
has a least element (`LeastNumber`); induction up to a bound over a set
(`Upwards`), and the existence of a function that is defined step by step
(`Recursion`), follow.

Model-checked only: `Returns`, `LoaderEnds` and `RoutineCleansUp`, which are liveness
under fairness and need ENABLED, out of the reach of the prover; what it can say of
them is `CallsEnd`, `LoadsEnd`, `CombiningEnds`, `EverybodyEnds` and `NoWaitIsInVain`. Every invariant
and action property of the passing runs is a theorem.

## Not modelled

* The module cache of the provider hook (`MimeMessage.cpp:1049-1106`): its count
  starts at 1, the test is for an increment that yields 1, so the libraries are
  never loaded there, and the code that would free them is compiled out.
  Detaching returns `ERROR_INVALID_FUNCTION`.
* `CopyStream` and `GetMemoryStreamForStream` (`StreamImpl.h:850-1146`): loops
  over the calls that `MemoryStream` has, without state of their own.
* The report of the decoder, content types, message texts.
* Computation of checksums; conversion of character sets.
* Headers that are of neither version of yEnc (`yDecode.h:1450-1484`).
* Handles and tokens of the loader. The call at `WinMain.cpp:899` passes
  arguments that the function in `Cojack.h` does not take; the model follows the
  function.
* Backward branches of a hooked procedure into its first bytes: they would run
  into the jump; the code does not look for them.
* Bootstrapper, installer, object extractor, utility headers: packaging, tools
  of the build, wrappers of the system.

## What could follow

Models: the detection of a module that is already loaded and the report of the
decoder.
