--------------------------- MODULE LocklessBuffer ---------------------------
(***************************************************************************)
(* dali/integration-api/lockless-buffer: two buffers shared by one thread  *)
(* that calls Write and one that calls Read, without a lock.  mState holds *)
(* three bits, here the fields of a record: which buffer is written, that  *)
(* a Write is in progress, and that it left something new to read.         *)
(*                                                                         *)
(* The bytes are Cells cells, copied one per step (memcpy), each holding   *)
(* the number of the Write that stored it last; 0 is the initial memset.   *)
(*                                                                         *)
(* Init, Next, Spec and vars are named Buffer... so that Primitives_proofs *)
(* can extend this module and LocklessPointerRing.                         *)
(***************************************************************************)
EXTENDS Naturals

CONSTANTS
  Cells,       \* size of each buffer
  MaxWrites    \* bound: the Writes of a behaviour

ASSUME BufferAssumption == Cells \in Nat \ {0} /\ MaxWrites \in Nat

VARIABLES
  mState,      \* the atomic state
  mBuffer,     \* contents of the two buffers
  writer,      \* the Write in progress
  reader,      \* the Read in progress
  held,        \* the buffer that the last completed Read returned
  alone,       \* history: 1 if no Write overlapped the current or the last Read
  writes,      \* history: number of the last Write begun
  completed    \* history: number of the last Write completed

bufferVars == <<mState, mBuffer, writer, reader, held, alone, writes, completed>>

Bit == {0, 1}
Buffers == Bit
Other(b) == 1 - b

State(b, writing, updated) ==
  [writeBuffer |-> b, writing |-> writing, updated |-> updated]
States == [writeBuffer : Bit, writing : Bit, updated : Bit]

WriterPCs == {"idle", "copy"}
ReaderPCs == {"idle", "swap"}

TypeOK ==
  /\ mState \in States
  /\ mBuffer \in [Buffers -> [1 .. Cells -> Nat]]
  /\ writer \in [pc : WriterPCs, seen : States, size : 0 .. Cells, done : 0 .. Cells]
  /\ reader \in [pc : ReaderPCs, seen : States]
  /\ alone \in Bit
  /\ held \in Buffers
  /\ writes \in Nat
  /\ completed \in Nat

\* Before the first Read the reader holds nothing; the buffer it would be
\* given is buffer 1, the one that is not written.
BufferInit == /\ mState = State(0, 0, 0)
              /\ mBuffer = [b \in Buffers |-> [c \in 1 .. Cells |-> 0]]
              /\ writer = [pc |-> "idle", seen |-> State(0, 0, 0), size |-> 0, done |-> 0]
              /\ reader = [pc |-> "idle", seen |-> State(0, 0, 0)]
              /\ alone = 0
              /\ held = 1
              /\ writes = 0
              /\ completed = 0

(***************************************************************************)
(* Write                                                                   *)
(***************************************************************************)
\* Mutant of WriteBegin: WRITING is set in the local copy of the state only.
WriteBeginUnmarked(size) ==
  /\ writer.pc = "idle"
  /\ writes < MaxWrites
  /\ writer' = [pc |-> "copy", seen |-> mState, size |-> size, done |-> 0]
  /\ writes' = writes + 1
  /\ alone' = 0
  /\ UNCHANGED <<mState, mBuffer, reader, held, completed>>

\* __sync_fetch_and_or(&mState, WRITING)
WriteBegin(size) ==
  /\ writer.pc = "idle"
  /\ writes < MaxWrites
  /\ writer' = [pc |-> "copy", seen |-> mState, size |-> size, done |-> 0]
  /\ mState' = [mState EXCEPT !.writing = 1]
  /\ writes' = writes + 1
  /\ alone' = 0
  /\ UNCHANGED <<mBuffer, reader, held, completed>>

\* Mutant of WriteCopy: fills the buffer that is not the write buffer.
WriteCopyToReadBuffer ==
  /\ writer.pc = "copy"
  /\ writer.done < writer.size
  /\ mBuffer' = [mBuffer EXCEPT ![Other(writer.seen.writeBuffer)][writer.done + 1] = writes]
  /\ writer' = [writer EXCEPT !.done = writer.done + 1]
  /\ UNCHANGED <<mState, reader, alone, held, writes, completed>>

\* One more byte of the memcpy, into the buffer the state named.
WriteCopy ==
  /\ writer.pc = "copy"
  /\ writer.done < writer.size
  /\ mBuffer' = [mBuffer EXCEPT ![writer.seen.writeBuffer][writer.done + 1] = writes]
  /\ writer' = [writer EXCEPT !.done = writer.done + 1]
  /\ UNCHANGED <<mState, reader, alone, held, writes, completed>>

\* The state the compare-and-swap of Write expects.
Expected == [writer.seen EXCEPT !.writing = 1]

\* Mutant of WriteEnd: UPDATED is not set.
WriteEndUnannounced ==
  /\ writer.pc = "copy"
  /\ writer.done = writer.size
  /\ mState' = IF mState = Expected THEN State(writer.seen.writeBuffer, 0, 0)
               ELSE mState
  /\ writer' = [writer EXCEPT !.pc = "idle"]
  /\ completed' = writes
  /\ UNCHANGED <<mBuffer, reader, alone, held, writes>>

WriteEnd ==
  /\ writer.pc = "copy"
  /\ writer.done = writer.size
  /\ mState' = IF mState = Expected THEN State(writer.seen.writeBuffer, 0, 1)
               ELSE mState
  /\ writer' = [writer EXCEPT !.pc = "idle"]
  /\ completed' = writes
  /\ UNCHANGED <<mBuffer, reader, alone, held, writes>>

(***************************************************************************)
(* Read                                                                    *)
(***************************************************************************)
\* The load of mState; without UPDATED the read buffer is returned as it is.
ReadBegin ==
  /\ reader.pc = "idle"
  /\ IF mState.updated = 1
     THEN /\ reader' = [pc |-> "swap", seen |-> mState]
          /\ UNCHANGED held
     ELSE /\ reader' = [pc |-> "idle", seen |-> mState]
          /\ held' = Other(mState.writeBuffer)
  /\ alone' = IF writer.pc = "idle" THEN 1 ELSE 0
  /\ UNCHANGED <<mState, mBuffer, writer, writes, completed>>

\* The compare-and-swap of Read; it fails while WRITING is set.
ReadSwap ==
  /\ reader.pc = "swap"
  /\ LET b == reader.seen.writeBuffer
     IN  IF mState = State(b, 0, 1)
         THEN /\ mState' = State(Other(b), 0, 0)
              /\ held' = b
         ELSE /\ held' = Other(b)
              /\ UNCHANGED mState
  /\ reader' = [reader EXCEPT !.pc = "idle"]
  /\ UNCHANGED <<mBuffer, writer, alone, writes, completed>>

BufferNext == \/ \E size \in 1 .. Cells : WriteBegin(size)
              \/ WriteCopy \/ WriteEnd
              \/ ReadBegin \/ ReadSwap

BufferSpec == BufferInit /\ [][BufferNext]_bufferVars

(***************************************************************************)
(* Properties                                                              *)
(***************************************************************************)
\* The buffer a Read returned is never the one a Write fills: not while the
\* caller still uses it, and not when the next Read races a Write.
ReaderNeverMeetsWriter ==
  writer.pc = "copy" => writer.seen.writeBuffer # held

\* What a Read returned does not change under its caller ("returned value
\* only valid until Read() is called again"): as long as the same buffer is
\* held no byte of it changes.
HeldIsStable == [][held' = held => mBuffer'[held] = mBuffer[held]]_bufferVars

\* The compare-and-swap that ends a Write always finds the state Write left:
\* no Read swaps the buffers in between, so no completed Write is dropped
\* with its UPDATED bit.
WriteAlwaysPublishes == writer.pc = "copy" => mState = Expected

\* This step is the end of a Read.
Returns == ReadSwap \/ (ReadBegin /\ mState.updated = 0)

\* A Read that no Write overlapped returns the bytes of the newest Write (all
\* Writes store byte 1), even if many Writes went unread before it.
UndisturbedReadIsFresh ==
  [][Returns /\ alone' = 1 => mBuffer'[held'][1] = completed]_bufferVars

\* Data never goes back in time for the reader: a later Read never returns
\* an older Write than an earlier Read did.
ReadsAreMonotonic == [][mBuffer'[held'][1] >= mBuffer[held][1]]_bufferVars

=============================================================================
