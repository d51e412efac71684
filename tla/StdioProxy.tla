----------------------------- MODULE StdioProxy -----------------------------
(* The bridge from a local stdio client to a remote server                    *)
(* (src/cpersona/proxy_stdio.py): a thread reads the lines behind a           *)
(* semaphore, the loop starts one forward per line, each forward queues what  *)
(* it owes back, and one writer empties that queue to stdout.                 *)
(*                                                                           *)
(* A line is its kind; a reply is the number of messages it holds.  What a    *)
(* forward does after its POST returns has no await in it and is one step.    *)
EXTENDS Naturals, Sequences, FiniteSets

CONSTANTS
  MaxInflight,   \* CPERSONA_PROXY_MAX_INFLIGHT, at least 1
  MaxLines,      \* bound: lines of the client
  WriterMayDie   \* whether the writer task may end by something other than an Exception

ASSUME ProxyAssumption == MaxInflight \in Nat \ {0} /\ MaxLines \in Nat /\ WriterMayDie \in BOOLEAN

(* What the client may send: a request carries an id, a notification none, a  *)
(* garbled line is one whose id cannot be read.                               *)
LineKinds == {"request", "notification", "garbled", "blank"}

VARIABLES
  stdin,    \* the kinds of the lines the client wrote and the bridge has not read
  closed,   \* whether the client closed its end
  reader,   \* "waits" for a slot, "reads" while it holds one, or "done"
  slots,    \* the semaphore
  lines,    \* the kinds of the lines handed on, in order: a line's name is its place
  inbox,    \* queue: the lines not yet taken, 0 for the sentinel
  posted,   \* in_flight: the lines whose forward awaits the remote
  outbox,   \* out_queue: what is to be written, for the line 0 the sentinel
  printer,   \* "runs", "done" or "dead"
  bridge,   \* where main() stands
  session,  \* whether the remote has issued a session id
  written,  \* per line handed on: the answers the client got to it
  dropped   \* the lines whose answer failed on its way to stdout

proxyVars == <<stdin, closed, reader, slots, lines, inbox, posted, outbox, printer, bridge, session, written, dropped>>

-----------------------------------------------------------------------------
ClientWrites(kind) ==
  /\ ~closed /\ Len(stdin) + Len(lines) < MaxLines
  /\ stdin' = Append(stdin, kind)
  /\ UNCHANGED <<closed, reader, slots, lines, inbox, posted, outbox, printer, bridge, session, written, dropped>>

ClientCloses ==
  /\ ~closed
  /\ closed' = TRUE
  /\ UNCHANGED <<stdin, reader, slots, lines, inbox, posted, outbox, printer, bridge, session, written, dropped>>

(* _read_stdin_lines.  A slot is taken before the next line is read, so a     *)
(* saturated bridge reads nothing, the end of the input included.             *)

TakeSlot ==
  /\ reader = "waits" /\ slots > 0
  /\ reader' = "reads"
  /\ slots' = slots - 1
  /\ UNCHANGED <<stdin, closed, lines, inbox, posted, outbox, printer, bridge, session, written, dropped>>

BlankLine ==
  /\ reader = "reads" /\ stdin # <<>> /\ Head(stdin) = "blank"
  /\ stdin' = Tail(stdin)
  /\ slots' = slots + 1
  /\ reader' = "waits"
  /\ UNCHANGED <<closed, lines, inbox, posted, outbox, printer, bridge, session, written, dropped>>

ReadStdinLine ==
  /\ reader = "reads" /\ stdin # <<>> /\ Head(stdin) # "blank"
  /\ stdin' = Tail(stdin)
  /\ lines' = Append(lines, Head(stdin))
  /\ inbox' = Append(inbox, Len(lines'))
  /\ written' = Append(written, [replies |-> 0, errors |-> 0])
  /\ reader' = "waits"
  /\ UNCHANGED <<closed, slots, posted, outbox, printer, bridge, session, dropped>>

(* The sentinel needs no slot.  At the end of the input the slot goes back; a *)
(* read that raises keeps it, which costs nothing: nothing is read again.     *)
EndOfInput(raises) ==
  /\ reader = "reads" /\ (raises \/ (closed /\ stdin = <<>>))
  /\ slots' = IF raises THEN slots ELSE slots + 1
  /\ inbox' = Append(inbox, 0)
  /\ reader' = "done"
  /\ UNCHANGED <<stdin, closed, lines, posted, outbox, printer, bridge, session, written, dropped>>

-----------------------------------------------------------------------------
(* main() and _forward.                                                      *)

TakeLine ==
  /\ bridge = "loop" /\ inbox # <<>> /\ Head(inbox) # 0 /\ printer = "runs"
  /\ inbox' = Tail(inbox)
  /\ posted' = posted \cup {Head(inbox)}
  /\ UNCHANGED <<stdin, closed, reader, slots, lines, outbox, printer, bridge, session, written, dropped>>

StopTaking ==
  /\ bridge = "loop" /\ inbox # <<>> /\ (Head(inbox) = 0 \/ printer # "runs")
  /\ inbox' = Tail(inbox)
  /\ bridge' = "gather"
  /\ UNCHANGED <<stdin, closed, reader, slots, lines, posted, outbox, printer, session, written, dropped>>

(* What a returned POST owes: the error of a transport failure, of a status   *)
(* outside 2xx, of a body that is no JSON-RPC message or of an unforeseen     *)
(* exception, or the messages of the body: none for an accepted notification, *)
(* one for a JSON body, several for a stream.                                 *)
Outcomes(kind) ==
  {[error |-> TRUE, messages |-> 0]}
    \cup {[error |-> FALSE, messages |-> n] :
             n \in CASE kind = "request" -> 1..2 [] kind = "garbled" -> {1} [] OTHER -> {0}}

ReleaseSlotAnswered(s, o) == IF o.error THEN s ELSE s + 1

(* The finally clause of _forward: the reader may take the next line.         *)
ReleaseSlot(s, o) == s + 1

Forwarded(l) ==
  /\ l \in posted
  /\ \E o \in Outcomes(lines[l]), issued \in BOOLEAN :
       /\ outbox' = Append(outbox, [line |-> l, error |-> o.error, messages |-> o.messages])
       /\ slots' = ReleaseSlot(slots, o)
       /\ session' = (session \/ issued)
  /\ posted' = posted \ {l}
  /\ UNCHANGED <<stdin, closed, reader, lines, inbox, printer, bridge, written, dropped>>

Sentinel == [line |-> 0, error |-> FALSE, messages |-> 0]

(* The answers still owed are waited for once the input has ended.            *)
Gather ==
  /\ bridge = "gather" /\ posted = {}
  /\ outbox' = Append(outbox, Sentinel)
  /\ bridge' = "closing"
  /\ UNCHANGED <<stdin, closed, reader, slots, lines, inbox, posted, printer, session, written, dropped>>

Exit ==
  /\ bridge = "closing" /\ printer # "runs"
  /\ bridge' = "exited"
  /\ UNCHANGED <<stdin, closed, reader, slots, lines, inbox, posted, outbox, printer, session, written, dropped>>

-----------------------------------------------------------------------------
(* _stdout_writer, the only one that touches stdout.                         *)

WriterEnds ==
  /\ printer = "runs" /\ outbox # <<>> /\ Head(outbox) = Sentinel
  /\ outbox' = Tail(outbox)
  /\ printer' = "done"
  /\ UNCHANGED <<stdin, closed, reader, slots, lines, inbox, posted, bridge, session, written, dropped>>

(* _write_error answers a request and a line whose id it cannot read, and     *)
(* never a notification.                                                      *)
ErrorsOwed(kind) == IF kind = "notification" THEN 0 ELSE 1

(* What the line's client has got with this item.                             *)
Received(w, item) ==
  IF item.error THEN [w EXCEPT !.errors = @ + ErrorsOwed(lines[item.line])]
  ELSE [w EXCEPT !.replies = @ + item.messages]

Emit ==
  /\ printer = "runs" /\ outbox # <<>> /\ Head(outbox) # Sentinel
  /\ LET item == Head(outbox) IN written' = [written EXCEPT ![item.line] = Received(@, item)]
  /\ outbox' = Tail(outbox)
  /\ UNCHANGED <<stdin, closed, reader, slots, lines, inbox, posted, printer, bridge, session, dropped>>

(* The guard of one item: what was not written of it is lost, and the writer  *)
(* goes on.                                                                   *)
EmitFails ==
  /\ printer = "runs" /\ outbox # <<>> /\ Head(outbox) # Sentinel
  /\ LET item == Head(outbox)
     IN  /\ \E n \in {k \in 0..item.messages : k < item.messages \/ k = 0} :
              written' = [written EXCEPT ![item.line].replies = @ + n]
         /\ dropped' = dropped \cup {item.line}
  /\ outbox' = Tail(outbox)
  /\ UNCHANGED <<stdin, closed, reader, slots, lines, inbox, posted, printer, bridge, session>>

WriterDies ==
  /\ WriterMayDie /\ printer = "runs"
  /\ printer' = "dead"
  /\ UNCHANGED <<stdin, closed, reader, slots, lines, inbox, posted, outbox, bridge, session, written, dropped>>

-----------------------------------------------------------------------------
ProxyInit ==
  /\ stdin = <<>> /\ closed = FALSE
  /\ reader = "waits"
  /\ slots = MaxInflight
  /\ lines = <<>> /\ inbox = <<>> /\ posted = {} /\ outbox = <<>>
  /\ printer = "runs" /\ bridge = "loop"
  /\ session = FALSE
  /\ written = <<>> /\ dropped = {}

(* The process is gone once main() has returned, the reader's thread with it. *)
ProxyNext ==
  /\ bridge # "exited"
  /\ \/ \E kind \in LineKinds : ClientWrites(kind)
     \/ ClientCloses
     \/ TakeSlot
     \/ BlankLine
     \/ ReadStdinLine
     \/ \E raises \in BOOLEAN : EndOfInput(raises)
     \/ TakeLine
     \/ StopTaking
     \/ \E l \in posted : Forwarded(l)
     \/ Gather
     \/ Exit
     \/ WriterEnds
     \/ Emit
     \/ EmitFails
     \/ WriterDies

ProxySpec == ProxyInit /\ [][ProxyNext]_proxyVars

-----------------------------------------------------------------------------
(* One answer to a line that owes one, unless the write of it failed.         *)
AnsweredOnce(l) ==
  LET answers == written[l].errors + (IF written[l].replies > 0 THEN 1 ELSE 0)
  IN  /\ lines[l] = "notification" => answers = 0
      /\ lines[l] # "notification" => answers <= 1
      /\ lines[l] # "notification" /\ l \notin dropped => answers = 1

(* The bridge never holds more lines than its cap, and no slot is lost while  *)
(* it reads; and when it exits with its writer sound, every request it took   *)
(* and every line whose id it could not read got one answer, unless the write *)
(* of that answer failed, while a notification got none (the semaphore and    *)
(* the finally of _forward, the gather at the end of main, _write_error).     *)
BridgeSound ==
  /\ Cardinality(posted) + Cardinality({n \in DOMAIN inbox : inbox[n] # 0}) <= MaxInflight
  /\ bridge = "loop" /\ reader # "done" =>
       slots + Cardinality(posted) + Len(inbox) + (IF reader = "reads" THEN 1 ELSE 0) = MaxInflight
  /\ bridge = "exited" /\ printer = "done" => \A l \in DOMAIN lines : AnsweredOnce(l)

(* ... and once the client has closed its end, the bridge is never stuck      *)
(* before it has exited.                                                      *)
BridgeAnswers == BridgeSound /\ (closed /\ bridge # "exited" => ENABLED ProxyNext)
============================================================================
