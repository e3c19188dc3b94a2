------------------------------ MODULE EventLog ------------------------------
(***************************************************************************)
(* From the wire to the replay: tools/finnhub_recorder.cpp collects events *)
(* from the WebSocket thread under a lock and saves them, event_codec.cpp  *)
(* writes and reads the binary log, and ReplayEngine::run hands what was   *)
(* read to the pipeline.  Writing may end at any point: the program is     *)
(* killed, or the disk is full and the stream swallows the rest.           *)
(*                                                                         *)
(* The file is the sequence of the fields in it.  A field that is there in *)
(* part is like one that is missing: the read of it fails.                 *)
(***************************************************************************)
EXTENDS Integers, SequencesExt

CONSTANTS
    Messages,     \* what the adapter makes of a message: sequences of events
    MaxEvents,    \* bound on the number of events that are recorded
    HalfRange,    \* half the values of a number in the file (2^63 in the code)
    None

Types == {"Quote", "Trade", "BookDelete", "Snapshot", "Heartbeat"}

Int64 == (-HalfRange) .. (HalfRange - 1)

LoggedEvent ==
    [timestamp : Int64, sequence : 0 .. (2 * HalfRange - 1), symbol : STRING, type : Types,
     price : Int64, quantity : Int64, side : {"Buy", "Sell"}]

ASSUME LogAssumption ==
    /\ HalfRange \in Nat \ {0}
    /\ MaxEvents \in Nat
    /\ None \notin LoggedEvent
    /\ \A m \in Messages : m # <<>> /\ m \in Seq(LoggedEvent)

-----------------------------------------------------------------------------
(* The codec *)

(* put_u64 and put_i64: the two's complement of a number, and back.        *)
Bits(n) == n % (2 * HalfRange)
Signed(bits) == IF bits < HalfRange THEN bits ELSE bits - 2 * HalfRange

TypeCode == [t \in Types |-> CASE t = "Quote" -> 0 [] t = "Trade" -> 1
                               [] t = "BookDelete" -> 2 [] t = "Snapshot" -> 3
                               [] t = "Heartbeat" -> 4]
SideCode == [s \in {"Buy", "Sell"} |-> IF s = "Buy" THEN 0 ELSE 1]

(* static_cast of a code to its enumeration.                               *)
Decoded(code, raw) == CHOOSE x \in DOMAIN code : code[x] = raw

Magic == "LOBEVT01"

(* The length and the padded characters of the symbol are one field here.  *)
write_event(ev) ==
    <<Bits(ev.timestamp), Bits(ev.sequence), ev.symbol, TypeCode[ev.type],
      Bits(ev.price), Bits(ev.quantity), SideCode[ev.side]>>

Fields == 7

write_events_to_file(evs) ==
    <<Magic>> \o FlattenSeq([i \in DOMAIN evs |-> write_event(evs[i])])

(* The event in a complete record r.                                       *)
EventOf(r) ==
    [timestamp |-> Signed(r[1]), sequence |-> r[2], symbol |-> r[3],
     type |-> Decoded(TypeCode, r[4]), price |-> Signed(r[5]),
     quantity |-> Signed(r[6]), side |-> Decoded(SideCode, r[7])]

(* Fault: the read of the last field is not tested; side_raw stays 0.      *)
read_event_side_unchecked(f, pos) ==
    IF Len(f) < pos + Fields - 1 THEN None
    ELSE EventOf(SubSeq(f, pos + 1, pos + Fields - 1) \o
                 (IF Len(f) < pos + Fields THEN <<0>> ELSE <<f[pos + Fields]>>))

(* The event after the first pos fields, or None if a field is missing.    *)
read_event(f, pos) ==
    IF Len(f) < pos + Fields THEN None
    ELSE EventOf(SubSeq(f, pos + 1, pos + Fields))

read_and_check_magic(f) == f # <<>> /\ Head(f) = Magic

-----------------------------------------------------------------------------
VARIABLES
    main,      \* where the recorder's main thread is, then the replay
    mu,        \* who holds the recorder's mutex
    deadline,  \* whether duration_sec has passed
    net,       \* the events of a message that are not delivered yet (batch_)
    events,    \* events
    file,      \* the log on disk, or None
    loaded,    \* what read_events_from_file has read
    replayed   \* the events handed to Pipeline::process

logVars == <<main, mu, deadline, net, events, file, loaded, replayed>>

(* A file of that name may exist; a log of another recording is left out.  *)
Init ==
    /\ main = "test" /\ mu = None /\ deadline = FALSE /\ net = <<>>
    /\ events = <<>>
    /\ file \in {None, <<>>, <<"other">>}
    /\ loaded = <<>> /\ replayed = <<>>

(* The WebSocket thread handles messages until it is stopped: the adapter  *)
(* turns one into events, ...                                              *)
Arrive(m) ==
    /\ main \in {"test", "sleep", "status", "stop"} /\ net = <<>>
    /\ Len(events) + Len(m) <= MaxEvents
    /\ net' = m
    /\ UNCHANGED <<main, mu, deadline, events, file, loaded, replayed>>

(* ... and each is handed to the callback: lock, append, unlock.           *)
Callback ==
    /\ net # <<>> /\ mu = None
    /\ events' = Append(events, Head(net))
    /\ net' = Tail(net)
    /\ UNCHANGED <<main, mu, deadline, file, loaded, replayed>>

TimeUp ==
    /\ ~deadline
    /\ deadline' = TRUE
    /\ UNCHANGED <<main, mu, net, events, file, loaded, replayed>>

Test ==
    /\ main = "test"
    /\ main' = IF deadline THEN "stop" ELSE "sleep"
    /\ UNCHANGED <<mu, deadline, net, events, file, loaded, replayed>>

(* After a second of sleep, the lock for the status line.                  *)
LockForStatus ==
    /\ main = "sleep" /\ mu = None
    /\ main' = "status" /\ mu' = "main"
    /\ UNCHANGED <<deadline, net, events, file, loaded, replayed>>

(* Fault: the lock of the status line is not given back.                   *)
EndStatus_locked ==
    /\ main = "status"
    /\ main' = "test"
    /\ UNCHANGED <<mu, deadline, net, events, file, loaded, replayed>>

(* The end of the loop's body gives the lock back.                         *)
EndStatus ==
    /\ main = "status"
    /\ main' = "test" /\ mu' = None
    /\ UNCHANGED <<deadline, net, events, file, loaded, replayed>>

(* client.stop(): no new message is handled, ...                           *)
Stop ==
    /\ main = "stop"
    /\ main' = "join"
    /\ UNCHANGED <<mu, deadline, net, events, file, loaded, replayed>>

(* Fault: the message that is being handled is not waited for.             *)
Join_early ==
    /\ main = "join"
    /\ main' = "save"
    /\ UNCHANGED <<mu, deadline, net, events, file, loaded, replayed>>

(* ... and the one that is being handled is waited for.                    *)
Join ==
    /\ main = "join" /\ net = <<>>
    /\ main' = "save"
    /\ UNCHANGED <<mu, deadline, net, events, file, loaded, replayed>>

(* Without events there is nothing to save; else the file is opened and    *)
(* emptied, unless that fails.                                             *)
Save ==
    /\ main = "save" /\ mu = None
    /\ mu' = "main"
    /\ \/ events = <<>> /\ main' = "recorded" /\ UNCHANGED file
       \/ events # <<>> /\ main' = "write" /\ file' = <<>>
       \/ events # <<>> /\ main' = "recorded" /\ UNCHANGED file
    /\ UNCHANGED <<deadline, net, events, loaded, replayed>>

(* The next field of the log reaches the disk, ...                         *)
Write ==
    LET log == write_events_to_file(events)
    IN
    /\ main = "write"
    /\ IF Len(file) < Len(log)
       THEN file' = Append(file, log[Len(file) + 1]) /\ UNCHANGED main
       ELSE main' = "recorded" /\ UNCHANGED file
    /\ UNCHANGED <<mu, deadline, net, events, loaded, replayed>>

(* ... or neither it nor any later one does.                               *)
CutShort ==
    /\ main = "write"
    /\ main' = "recorded"
    /\ UNCHANGED <<mu, deadline, net, events, file, loaded, replayed>>

(* A replay of the log begins: a missing or foreign file is refused.       *)
OpenLog ==
    /\ main = "recorded"
    /\ main' = IF file # None /\ read_and_check_magic(file) THEN "load" ELSE "refused"
    /\ UNCHANGED <<mu, deadline, net, events, file, loaded, replayed>>

(* The loop of read_events_from_file, one event.                           *)
Load ==
    LET ev == read_event(file, 1 + Fields * Len(loaded))
    IN
    /\ main = "load"
    /\ IF ev # None THEN loaded' = Append(loaded, ev) /\ UNCHANGED main
                    ELSE main' = "replay" /\ UNCHANGED loaded
    /\ UNCHANGED <<mu, deadline, net, events, file, replayed>>

(* The loop of ReplayEngine::run, one event; the pacing changes nothing.   *)
Replay ==
    /\ main = "replay"
    /\ IF Len(replayed) < Len(loaded)
       THEN replayed' = Append(replayed, loaded[Len(replayed) + 1]) /\ UNCHANGED main
       ELSE main' = "done" /\ UNCHANGED replayed
    /\ UNCHANGED <<mu, deadline, net, events, file, loaded>>

Main ==
    \/ Test \/ LockForStatus \/ EndStatus \/ Stop \/ Join \/ Save \/ Write \/ CutShort
    \/ OpenLog \/ Load \/ Replay

Next == TimeUp \/ Callback \/ Main \/ \E m \in Messages : Arrive(m)

(* Both threads run and time passes.                                       *)
Spec ==
    /\ Init /\ [][Next]_logVars
    /\ WF_logVars(TimeUp) /\ WF_logVars(Callback) /\ WF_logVars(Main)

-----------------------------------------------------------------------------
(* Wherever the writing of a log broke off, its replay hands the pipeline  *)
(* a prefix of the events that were recorded: no event is made up from a   *)
(* record that is there in part, none is changed by its way through the    *)
(* file, and a file of another kind yields none.                           *)
ReplaysAPrefix == IsPrefix(replayed, events)

(* A log that was written to its end replays as all the events that the    *)
(* client delivered, the whole of the message included that was in hand,   *)
(* its callback waiting for the mutex, when the client was stopped.        *)
CompleteLogReplaysAll ==
    main = "done" /\ file = write_events_to_file(events) =>
        replayed = events /\ net = <<>>

(* The recorder comes to its end: it never waits for the WebSocket thread  *)
(* while that thread waits for the mutex.                                  *)
RecorderEnds == <>(main \in {"refused", "done"})
=============================================================================
