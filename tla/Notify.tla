------------------------------- MODULE Notify -------------------------------
(***************************************************************************)
(* notify.Multi over webhook, ntfy and Apprise senders (notify/notify.go): *)
(* a notification is rendered for one backend after another and posted     *)
(* through httpc's transport, and the errors are joined. A backend may act *)
(* on a post whose answer is lost, and the one context of the call may end *)
(* at any time.                                                            *)
(***************************************************************************)
EXTENDS Integers, Sequences, FiniteSets

CONSTANTS
  Backends,  \* the Multi: "webhook", "ntfy", "apprise", or "nil"
  Severities \* the values of Notification.Level that occur

Levels == {"info", "success", "warning", "failure"}

ASSUME NotifyAssumption ==
  /\ Backends \in Seq({"webhook", "ntfy", "apprise", "nil"})
  /\ Severities \subseteq STRING

VARIABLES
  note,      \* the Send under way: its place, its level, the next backend, its errors
  noteCtx,   \* the context of the call has ended
  inbox,     \* what each place of the Multi has received, in the backend's terms
  tried      \* history: how often each place was posted to, and the last answer

noteVars == <<note, noteCtx, inbox, tried>>

NoNote == [pc |-> "idle", level |-> "info", i |-> 1, errs |-> <<>>]

NotTried == [sent |-> 0, answer |-> "none"]

NotifyInit ==
  /\ note = NoNote /\ noteCtx = FALSE /\ inbox = [i \in DOMAIN Backends |-> <<>>]
  /\ tried = [i \in DOMAIN Backends |-> NotTried]
-----------------------------------------------------------------------------
(* Plausible mistakes in this code, for checking that the properties see them *)

SenderFailsMut_ReturnsEarly ==
  note' = [note EXCEPT !.i = Len(Backends) + 1, !.errs = Append(@, note.i)]

RetriedMut_AnyMethod(method) == TRUE
-----------------------------------------------------------------------------
(* Rendering *)

\* Notification.level: an unknown severity counts as info.
LevelOf(l) == IF l \in Levels THEN l ELSE "info"

NtfyPriority(l) == CASE l = "failure" -> 5 [] l = "warning" -> 4 [] OTHER -> 3

\* What the backend reads of the severity: a level, or ntfy's priority.
Rendered(b, l) == IF b = "ntfy" THEN NtfyPriority(LevelOf(l)) ELSE LevelOf(l)
-----------------------------------------------------------------------------
(* Multi.Send *)

NotifyBegins(l) ==
  /\ note.pc = "idle"
  /\ note' = [NoNote EXCEPT !.pc = "loop", !.level = l]
  /\ inbox' = [i \in DOMAIN Backends |-> <<>>]
  /\ tried' = [i \in DOMAIN Backends |-> NotTried]
  /\ UNCHANGED noteCtx

\* The next turn of the loop, with or without an error to keep.
NextSender(errs) == [pc |-> "loop", level |-> note.level, i |-> note.i + 1, errs |-> errs]
SenderDone == note' = NextSender(note.errs)
SenderFails == note' = NextSender(Append(note.errs, note.i))

AtSender == note.pc = "loop" /\ note.i <= Len(Backends)

SkipsNil ==
  /\ AtSender /\ Backends[note.i] = "nil"
  /\ SenderDone
  /\ UNCHANGED <<noteCtx, inbox, tried>>

\* Data that cannot be marshalled, which only the webhook carries, or a URL
\* that makes no request.
NotRendered ==
  /\ AtSender /\ Backends[note.i] # "nil"
  /\ SenderFails
  /\ UNCHANGED <<noteCtx, inbox, tried>>

\* idempotentMethod: what the transport sends again after a transient failure.
Retried(method) == method \in {"GET", "HEAD", "OPTIONS", "TRACE", ""}

\* One retry stands for the transport's MaxRetries.
Attempts(method) == IF Retried(method) THEN 2 ELSE 1

\* post: each request sent reaches the backend or not. The sender sees a 2xx,
\* a transient failure (a 502, or no answer) after the last attempt, or some
\* other failure. Under a context that has ended nothing is sent.
Posts ==
  /\ AtSender /\ Backends[note.i] # "nil"
  /\ \E sent \in 0..Attempts("POST"), answer \in {"ok", "transient", "failed"} :
       /\ (sent = 0) = noteCtx /\ (noteCtx => answer = "failed")
       /\ answer = "transient" => sent = Attempts("POST")
       /\ \E copies \in (IF answer = "ok" THEN 1 ELSE 0)..sent :
            inbox' = [inbox EXCEPT ![note.i] =
                        @ \o [k \in 1..copies |-> Rendered(Backends[note.i], note.level)]]
       /\ tried' = [tried EXCEPT ![note.i] = [sent |-> sent, answer |-> answer]]
       /\ IF answer = "ok" THEN SenderDone ELSE SenderFails
  /\ UNCHANGED noteCtx

\* joinErrors: nil when there are none.
NotifyReturns ==
  /\ note.pc = "loop" /\ note.i > Len(Backends)
  /\ note' = [note EXCEPT !.pc = "done"]
  /\ UNCHANGED <<noteCtx, inbox, tried>>

NotifyForgotten ==
  /\ note.pc = "done"
  /\ note' = NoNote /\ noteCtx' = FALSE
  /\ UNCHANGED <<inbox, tried>>

NotifyCut == note.pc = "loop" /\ ~noteCtx /\ noteCtx' = TRUE /\ UNCHANGED <<note, inbox, tried>>

NotifyNext ==
  \/ \E l \in Severities : NotifyBegins(l)
  \/ SkipsNil \/ NotRendered \/ Posts \/ NotifyReturns \/ NotifyForgotten \/ NotifyCut

NotifySpec == NotifyInit /\ [][NotifyNext]_noteVars
-----------------------------------------------------------------------------
(* Properties *)

\* Every variable has its type.
NotifyTypeOK ==
  /\ note.pc \in {"idle", "loop", "done"} /\ note.level \in Severities \cup {"info"}
  /\ note.i \in 1..(Len(Backends) + 1) /\ note.errs \in Seq(DOMAIN Backends)
  /\ noteCtx \in BOOLEAN /\ DOMAIN inbox = DOMAIN Backends
  /\ tried \in [DOMAIN Backends -> [sent : 0..2, answer : {"none", "ok", "transient", "failed"}]]

\* "Multi sends to every sender and joins their errors, so one dead backend does
\* not suppress the others": when it returns, each sender that is not nil has
\* either an error in the joined one, once, or exactly one copy at its backend,
\* as severe as was asked for; and no backend ever has two. That no backend has
\* two rests on the transport sending a POST once, which is not what this
\* package says of it: TransientRetried.
EveryBackendAnswered ==
  note.pc = "done" =>
    \A i \in DOMAIN Backends :
      /\ Len(inbox[i]) <= 1
      /\ Backends[i] # "nil" /\ (\A j \in DOMAIN note.errs : note.errs[j] # i) =>
           inbox[i] = <<Rendered(Backends[i], note.level)>>
      /\ Cardinality({j \in DOMAIN note.errs : note.errs[j] = i}) <= 1

\* The package is there because hand-written senders have "no retry on a transient
\* 502", and DefaultTimeout "bounds one delivery attempt including its retries":
\* a backend whose last answer was a transient failure was posted to again.
TransientRetried ==
  \A i \in DOMAIN Backends : tried[i].answer = "transient" => tried[i].sent > 1
=============================================================================
