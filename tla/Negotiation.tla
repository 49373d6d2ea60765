---------------------------- MODULE Negotiation -----------------------------
(***************************************************************************)
(* What the option negotiation of an NBD connection means, given all the   *)
(* bytes the client sends: the flags, then whole options one after the     *)
(* other until one chooses an export.  How the bytes are cut into chunks,  *)
(* where a chunk is kept and how far a field has been received play no     *)
(* part in it.                                                             *)
(***************************************************************************)
EXTENDS Integers, Sequences

CONSTANTS
  Base,      \* a byte is one of 0 .. Base - 1
  IHAVEOPT,  \* the eight bytes an option starts with
  Exports,   \* the names of the exported devices
  HeapLimit, \* the longest option that may have to be kept
  None       \* no export

VARIABLES
  stream,    \* what the client sends
  phase,     \* "negotiating", or how that ended
  next,      \* bytes up to the start of the next option; 0: flags expected
  export,    \* the export chosen
  lost       \* the connection failed

vars == <<stream, phase, next, export, lost>>

Bytes(from, n) == SubSeq(stream, from + 1, from + n)
Received(n) == Len(stream) >= n

Integer(from) ==
  LET b == Bytes(from, 4)
  IN  b[1] * Base * Base * Base + b[2] * Base * Base + b[3] * Base + b[4]

OptionID == Integer(next + 8)
Length   == Integer(next + 12)
End      == next + 16 + Length
Data     == Bytes(next + 16, Length)

\* An option is there, all of it.
OptionReceived ==
  /\ next >= 4 /\ Received(next + 16) /\ Received(End)
  /\ Bytes(next, 8) = IHAVEOPT

EXPORT_NAME == 1

Ends(how) == phase' = how /\ next' = 0 /\ UNCHANGED stream

Flags ==
  /\ next = 0 /\ Received(4) /\ Integer(0) = 0
  /\ next' = 4
  /\ UNCHANGED <<stream, phase, export, lost>>

\* Any other option is left unanswered.
Skip ==
  /\ OptionReceived /\ OptionID # EXPORT_NAME
  /\ next' = End
  /\ UNCHANGED <<stream, phase, export, lost>>

Choose ==
  /\ OptionReceived /\ OptionID = EXPORT_NAME /\ Data \in Exports
  /\ Ends("transmission") /\ export' = Data /\ UNCHANGED lost

\* What a client may be turned away for.
Wrong ==
  \/ next = 0 /\ Received(4) /\ Integer(0) # 0
  \/ next >= 4 /\ \E i \in 1 .. 8 : Received(next + i) /\ stream[next + i] # IHAVEOPT[i]
  \/ OptionReceived /\ OptionID = EXPORT_NAME /\ (Data \notin Exports \/ Received(End + 1))

Refuse == Wrong /\ Ends("closed") /\ UNCHANGED <<export, lost>>

Fail == Ends("closed") /\ lost' = TRUE /\ UNCHANGED export

\* The process ends: an option does not fit into memory.
OutOfMemory ==
  /\ next >= 4 /\ Received(next + 16) /\ Length > HeapLimit
  /\ Ends("crashed") /\ UNCHANGED <<export, lost>>

Init == phase = "negotiating" /\ next = 0 /\ export = None /\ lost = FALSE

Next ==
  /\ phase = "negotiating"
  /\ Flags \/ Skip \/ Choose \/ Refuse \/ Fail \/ OutOfMemory

Spec == Init /\ [][Next]_vars
=============================================================================
