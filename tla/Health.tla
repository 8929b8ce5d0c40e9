------------------------------- MODULE Health -------------------------------
(***************************************************************************)
(* BR_HEALTH: what command_handle_br_health puts into its buffer and what  *)
(* BrHealthParser reads from the payload.  A byte is a number; the prefix  *)
(* stands for the four counters, and a task's two sizes have one byte each *)
(* beside its name.                                                        *)
(***************************************************************************)
EXTENDS Naturals, Sequences

CONSTANTS
  Prefix,    \* the bytes of the counters; BR_HEALTH_PREFIX_SIZE of them
  Cap,       \* BR_HEALTH_TLV_BUF_SIZE
  Tasks,     \* k_br_tasks: sequence of [name, hwm, stack], each a sequence of bytes
  Bytes      \* what an uninitialised byte can be

VARIABLES
  at,       \* "fill", "tasks", "sent", "parse", "parsed" or "malformed"
  buf,      \* payload, on the handler's stack
  off,      \* off
  task,     \* the next task, and TLV, to put or to read
  msg,      \* the data of the ACK
  pos,      \* offset in the data after the prefix
  tasks     \* the tasks read

vars == <<at, buf, off, task, msg, pos, tasks>>

PrefixSize == Len(Prefix)

Fields == <<"name", "hwm", "stack">>

\* TLV types 0x01, 0x02 and 0x03.
First == [of |-> 1, field |-> 1]
Following(t) == IF t.field < 3 THEN [t EXCEPT !.field = @ + 1] ELSE [of |-> t.of + 1, field |-> 1]

Init ==
  /\ at = "fill"
  /\ buf \in [1 .. PrefixSize + Cap -> Bytes]
  /\ off = 0 /\ task = First
  /\ msg = <<>> /\ pos = 0 /\ tasks = <<>>

-----------------------------------------------------------------------------

FillPrefix ==
  /\ at = "fill"
  /\ buf' = [k \in DOMAIN buf |-> IF k <= PrefixSize THEN Prefix[k] ELSE buf[k]]
  /\ at' = "tasks"
  /\ UNCHANGED <<off, task, msg, pos, tasks>>

Value == Tasks[task.of][Fields[task.field]]

Tlv == <<task.field, Len(Value)>> \o Value

\* tlv_put(payload, ...) at off, which starts at 0 as the prefix does.
PutTlv ==
  /\ at = "tasks" /\ task.of <= Len(Tasks)
  /\ off + Len(Tlv) <= Cap
  /\ buf' = [k \in DOMAIN buf |-> IF k \in off + 1 .. off + Len(Tlv) THEN Tlv[k - off] ELSE buf[k]]
  /\ off' = off + Len(Tlv)
  /\ task' = Following(task)
  /\ UNCHANGED <<at, msg, pos, tasks>>

\* No room: the ACK is the prefix.  Otherwise prefix and TLVs.
Ack ==
  /\ at = "tasks"
  /\ IF task.of <= Len(Tasks)
     THEN off + Len(Tlv) > Cap /\ msg' = SubSeq(buf, 1, PrefixSize)
     ELSE msg' = SubSeq(buf, 1, PrefixSize + off)
  /\ at' = "parse" /\ task' = First
  /\ UNCHANGED <<buf, off, pos, tasks>>

Data == SubSeq(msg, PrefixSize + 1, Len(msg))

\* TryReadTlv, with the type it must have.
TlvAt ==
  /\ pos + 2 <= Len(Data)
  /\ Data[pos + 1] = task.field
  /\ pos + 2 + Data[pos + 2] <= Len(Data)

ReadTlv ==
  /\ at = "parse" /\ pos < Len(Data) /\ TlvAt
  /\ LET value == SubSeq(Data, pos + 3, pos + 2 + Data[pos + 2]) IN
     tasks' = IF task.field = 1 THEN Append(tasks, [name |-> value, hwm |-> <<>>, stack |-> <<>>])
              ELSE [tasks EXCEPT ![task.of][Fields[task.field]] = value]
  /\ pos' = pos + 2 + Data[pos + 2]
  /\ task' = Following(task)
  /\ UNCHANGED <<at, buf, off, msg>>

ParseEnds ==
  /\ at = "parse"
  /\ at' = IF pos >= Len(Data) /\ task.field = 1 THEN "parsed" ELSE "malformed"
  /\ pos >= Len(Data) \/ ~ TlvAt
  /\ UNCHANGED <<buf, off, task, msg, pos, tasks>>

Next == FillPrefix \/ PutTlv \/ Ack \/ ReadTlv \/ ParseEnds

Spec == Init /\ [][Next]_vars

-----------------------------------------------------------------------------

\* The payload is the prefix, and the TLVs after it: the parser finds the
\* counters and the tasks that were put in.
HealthReadsBack ==
  /\ at # "malformed"
  /\ at = "parsed" => SubSeq(msg, 1, PrefixSize) = Prefix /\ tasks \in {<<>>, Tasks}
=============================================================================
