------------------------------- MODULE Alerts -------------------------------
(***************************************************************************)
(* From an alert to the phone: the alert jobs record an alert and then     *)
(* write its notification, Deliver pushes what has not been pushed, the    *)
(* weekly digest mails what has not been mailed.  Each job has one run at  *)
(* a time (Jobs), and may stop between any two of its statements.  What    *)
(* marks a row as pushed or mailed may fail, and its job goes on.          *)
(*                                                                         *)
(* One person; a kind and its key (a release day, a deal) are one key.     *)
(***************************************************************************)
EXTENDS Integers, Sequences, FiniteSets

CONSTANTS
  Keys,         \* alerts there can be
  Endpoints,    \* browsers that can be subscribed
  MaxFailures,  \* failures in a row that drop a subscription (5)
  PushRows,     \* rows a delivery takes (500)
  MailRows,     \* rows a mail takes (50)
  MaxNotes,     \* bound: notifications ever written
  MaxStops      \* bound: jobs cut short and marks that fail

VARIABLES
  recorded,     \* alerts_sent
  notes,        \* notifications, oldest first
  subs,         \* push_subscriptions: endpoint -> failures, or None
  alert,        \* the alert job: the hits left, the one recorded last
  deliver,      \* the delivery: the rows left, the message and who gets it
  digest,       \* the digest: the rows it mailed and has not marked yet
  pushes,       \* <<notification, endpoint>> -> pushes sent
  mails,        \* notification -> mails it was in
  stops,        \* history: alerts and mailed rows a stop or a failure fell on, rows
                \* whose push is not marked, and how many stops and failures
  owed,         \* history: <<notification, endpoint>> a run set out to push
  unsent        \* history: those it did not: refused, or cut

alertsVars == <<recorded, notes, subs, alert, deliver, digest, pushes, mails, stops, owed, unsent>>
pushVars == <<owed, unsent>>

None == -1
NoKey == "none"
Ids == 1..MaxNotes
Resting == [pc |-> "idle"]

\* Notify: a person's follow or like writes one too, without a key.
Notify(key) ==
  notes' = Append(notes, [key |-> key, read |-> FALSE, old |-> FALSE, pushed |-> FALSE, emailed |-> FALSE])
CanNotify == Len(notes) < MaxNotes
----------------------------------------------------------------------------
(* The alert jobs.                                                         *)

\* Releases and Prices select the hits, then take one after the other.
SelectHits(hits) ==
  /\ alert = Resting /\ hits # {}
  /\ alert' = [pc |-> "once", todo |-> hits]
  /\ UNCHANGED <<recorded, notes, subs, deliver, digest, pushes, mails, stops, pushVars>>

\* INSERT OR IGNORE; only the first to record it goes on to tell.
Once(key) ==
  /\ alert.pc = "once" /\ key \in alert.todo
  /\ recorded' = recorded \cup {key}
  /\ alert' = IF key \notin recorded THEN [pc |-> "notify", todo |-> alert.todo \ {key}, key |-> key]
              ELSE IF alert.todo = {key} THEN Resting ELSE [pc |-> "once", todo |-> alert.todo \ {key}]
  /\ UNCHANGED <<notes, subs, deliver, digest, pushes, mails, stops, pushVars>>

NotifyAlert ==
  /\ alert.pc = "notify" /\ CanNotify
  /\ Notify(alert.key)
  /\ alert' = IF alert.todo = {} THEN Resting ELSE [pc |-> "once", todo |-> alert.todo]
  /\ UNCHANGED <<recorded, subs, deliver, digest, pushes, mails, stops, pushVars>>

\* The server stops, or the notification's INSERT fails.
AlertCut ==
  /\ alert # Resting /\ stops.count < MaxStops
  /\ alert' = Resting
  /\ stops' = [stops EXCEPT !.count = @ + 1, !.alerts = IF alert.pc = "notify" THEN @ \cup {alert.key} ELSE @]
  /\ UNCHANGED <<recorded, notes, subs, deliver, digest, pushes, mails, pushVars>>

NotifySocial ==
  /\ CanNotify
  /\ Notify(NoKey)
  /\ UNCHANGED <<recorded, subs, alert, deliver, digest, pushes, mails, stops, pushVars>>
----------------------------------------------------------------------------
(* Push.                                                                   *)

Subscribed == {e \in Endpoints : subs[e] # None}

\* A browser that subscribes again starts with no failures.
Subscribe(e) ==
  /\ subs' = [subs EXCEPT ![e] = 0]
  /\ UNCHANGED <<recorded, notes, alert, deliver, digest, pushes, mails, stops, pushVars>>

Unsubscribe(e) ==
  /\ subs[e] # None
  /\ subs' = [subs EXCEPT ![e] = None]
  /\ UNCHANGED <<recorded, notes, alert, deliver, digest, pushes, mails, stops, pushVars>>

\* Deliver selects what is new, unread and not pushed, the oldest first, and
\* whether the person wants pushes: a setting that can change between any two
\* runs.
Oldest(ns) == {n \in ns : Cardinality({m \in ns : m < n}) < PushRows}
ToPush == {n \in DOMAIN notes : ~notes[n].pushed /\ ~notes[n].read /\ ~notes[n].old}

Deliver(push) ==
  /\ deliver = Resting /\ ToPush # {} /\ Subscribed # {}
  /\ deliver' = [pc |-> "mark", todo |-> Oldest(ToPush), push |-> push]
  /\ UNCHANGED <<recorded, notes, subs, alert, digest, pushes, mails, stops, pushVars>>

OnTo(todo, push) == IF todo = {} THEN Resting ELSE [pc |-> "mark", todo |-> todo, push |-> push]

\* The rows come by id.
IsNext(n) == deliver.pc = "mark" /\ n \in deliver.todo /\ \A m \in deliver.todo : n <= m

\* sendAll reads the subscriptions there are then.
SendOrSkip(n) ==
  LET to == IF deliver.push THEN Subscribed ELSE {}
  IN  /\ deliver' = IF to = {} THEN OnTo(deliver.todo \ {n}, deliver.push)
                    ELSE [pc |-> "send", n |-> n, todo |-> deliver.todo \ {n}, push |-> deliver.push, to |-> to]
      /\ owed' = owed \cup {<<n, e>> : e \in to}

\* Slip: the row is marked after its message was sent.
MarkNothing(n, stored) ==
  /\ IsNext(n) /\ stored
  /\ SendOrSkip(n)
  /\ UNCHANGED <<recorded, notes, subs, alert, digest, pushes, mails, stops, unsent>>

\* The row is marked first.  The UPDATE may store nothing: its error is ignored,
\* and the row is pushed all the same.
MarkPushed(n, stored) ==
  /\ IsNext(n) /\ (stored \/ stops.count < MaxStops)
  /\ notes' = IF stored THEN [notes EXCEPT ![n].pushed = TRUE] ELSE notes
  /\ stops' = IF stored THEN stops ELSE [stops EXCEPT !.count = @ + 1, !.unmarked = @ \cup {n}]
  /\ SendOrSkip(n)
  /\ UNCHANGED <<recorded, subs, alert, digest, pushes, mails, unsent>>

\* What the push service says: a subscription that is gone is dropped, one
\* that failed too often in a row too.
AfterSend(e, answer) ==
  IF subs[e] = None \/ answer = "gone" THEN None
  ELSE IF answer = "ok" THEN 0
  ELSE IF subs[e] + 1 >= MaxFailures THEN None ELSE subs[e] + 1

Send(e, answer) ==
  /\ deliver.pc = "send" /\ e \in deliver.to
  /\ subs' = [subs EXCEPT ![e] = AfterSend(e, answer)]
  /\ pushes' = IF answer = "ok" THEN [pushes EXCEPT ![<<deliver.n, e>>] = @ + 1] ELSE pushes
  /\ unsent' = IF answer = "ok" THEN unsent ELSE unsent \cup {<<deliver.n, e>>}
  /\ deliver' = IF deliver.to = {e} THEN OnTo(deliver.todo, deliver.push) ELSE [deliver EXCEPT !.to = @ \ {e}]
  /\ UNCHANGED <<recorded, notes, alert, digest, mails, stops, owed>>

DeliverCut ==
  /\ deliver # Resting /\ stops.count < MaxStops
  /\ deliver' = Resting
  /\ stops' = [stops EXCEPT !.count = @ + 1]
  /\ unsent' = IF deliver.pc = "send" THEN unsent \cup {<<deliver.n, e>> : e \in deliver.to} ELSE unsent
  /\ UNCHANGED <<recorded, notes, subs, alert, digest, pushes, mails, owed>>
----------------------------------------------------------------------------
(* The digest.                                                             *)

Unmailed == {n \in 1..Len(notes) : ~notes[n].emailed /\ ~notes[n].read}

Newest(ns) == {n \in ns : Cardinality({m \in ns : m > n}) < MailRows}

\* digestOne mails the newest it read, to whoever wants the digest then,
SendMail ==
  /\ digest = Resting /\ Unmailed # {}
  /\ digest' = [pc |-> "mark", ids |-> Newest(Unmailed)]
  /\ mails' = [n \in Ids |-> IF n \in Newest(Unmailed) THEN mails[n] + 1 ELSE mails[n]]
  /\ UNCHANGED <<recorded, notes, subs, alert, deliver, pushes, stops, pushVars>>

\* then marks row after row, whether or not an UPDATE stores anything.
MarkEmailed(n, stored) ==
  /\ digest.pc = "mark" /\ n \in digest.ids /\ (stored \/ stops.count < MaxStops)
  /\ notes' = IF stored THEN [notes EXCEPT ![n].emailed = TRUE] ELSE notes
  /\ stops' = IF stored THEN stops ELSE [stops EXCEPT !.count = @ + 1, !.mails = @ \cup {n}]
  /\ digest' = IF digest.ids = {n} THEN Resting ELSE [pc |-> "mark", ids |-> digest.ids \ {n}]
  /\ UNCHANGED <<recorded, subs, alert, deliver, pushes, mails, pushVars>>

DigestCut ==
  /\ digest # Resting /\ stops.count < MaxStops
  /\ digest' = Resting
  /\ stops' = [stops EXCEPT !.count = @ + 1, !.mails = @ \cup digest.ids]
  /\ UNCHANGED <<recorded, notes, subs, alert, deliver, pushes, mails, pushVars>>
----------------------------------------------------------------------------
(* The person, and time.                                                   *)

MarkRead(upTo) ==
  /\ upTo \in DOMAIN notes /\ ~notes[upTo].read
  /\ notes' = [n \in DOMAIN notes |-> IF n <= upTo THEN [notes[n] EXCEPT !.read = TRUE] ELSE notes[n]]
  /\ UNCHANGED <<recorded, subs, alert, deliver, digest, pushes, mails, stops, pushVars>>

\* Six hours pass: too old to push.
SixHours ==
  /\ notes # <<>> /\ ~notes[1].old
  /\ notes' = [n \in DOMAIN notes |-> [notes[n] EXCEPT !.old = TRUE]]
  /\ UNCHANGED <<recorded, subs, alert, deliver, digest, pushes, mails, stops, pushVars>>

AlertsInit ==
  /\ recorded = {} /\ notes = <<>>
  /\ subs = [e \in Endpoints |-> None]
  /\ alert = Resting /\ deliver = Resting /\ digest = Resting
  /\ pushes = [p \in Ids \X Endpoints |-> 0] /\ mails = [n \in Ids |-> 0]
  /\ stops = [alerts |-> {}, mails |-> {}, unmarked |-> {}, count |-> 0]
  /\ owed = {} /\ unsent = {}

AlertsNext ==
  \/ \E hits \in SUBSET Keys : SelectHits(hits)
  \/ \E key \in Keys : Once(key)
  \/ NotifyAlert \/ AlertCut \/ NotifySocial
  \/ \E e \in Endpoints : Subscribe(e) \/ Unsubscribe(e) \/ \E a \in {"ok", "gone", "failed"} : Send(e, a)
  \/ \E push \in BOOLEAN : Deliver(push)
  \/ DeliverCut \/ SendMail \/ DigestCut
  \/ \E n \in Ids, stored \in BOOLEAN : MarkPushed(n, stored) \/ MarkEmailed(n, stored)
  \/ \E n \in Ids : MarkRead(n)
  \/ SixHours
----------------------------------------------------------------------------
(* Properties.                                                             *)

AlertsTypeOK ==
  /\ recorded \subseteq Keys /\ Len(notes) <= MaxNotes
  /\ \A n \in DOMAIN notes : notes[n].key \in Keys \cup {NoKey}
  /\ subs \in [Endpoints -> -1..(MaxFailures - 1)]
  /\ stops.alerts \subseteq Keys /\ stops.mails \cup stops.unmarked \subseteq Ids
  /\ stops.count \in 0..MaxStops
  /\ owed \cup unsent \subseteq Ids \X Endpoints

NotesOf(key) == {n \in DOMAIN notes : notes[n].key = key}

\* "Each alert is sent once" (alerts.go), with every exception there is.  An
\* alert has one notification, or a stop fell between its record and the
\* notification.  A notification that a run set out to push to a browser was
\* pushed, is about to be, or the push service refused it or a stop cut it off;
\* it is pushed twice only when its mark failed.  One that is marked as mailed
\* was in a mail, and in two only when a stop or a failed mark came between.
\* (A row that is marked while the person's setting is off is never pushed.)
DeliveredOnce ==
  /\ \A key \in Keys :
       /\ Cardinality(NotesOf(key)) <= 1
       /\ key \in recorded /\ NotesOf(key) = {} =>
            key \in stops.alerts \/ (alert.pc = "notify" /\ alert.key = key)
  /\ \A n \in Ids, e \in Endpoints :
       /\ pushes[<<n, e>>] > 1 => n \in stops.unmarked
       /\ <<n, e>> \in owed /\ pushes[<<n, e>>] = 0 =>
            <<n, e>> \in unsent \/ (deliver.pc = "send" /\ deliver.n = n /\ e \in deliver.to)
  /\ \A n \in Ids : mails[n] > 1 => n \in stops.mails
  /\ \A n \in DOMAIN notes : notes[n].emailed => mails[n] > 0
----------------------------------------------------------------------------
(* What the steps preserve.                                                *)

\* Who is told of an alert, and that nobody is told twice.
AlertInv ==
  /\ alert = Resting \/ (alert.pc = "once" /\ alert.todo \subseteq Keys) \/ (alert.pc = "notify" /\ alert.todo \subseteq Keys)
  /\ alert.pc = "notify" => alert.key \in recorded /\ \A i \in 1..Len(notes) : notes[i].key # alert.key
  /\ \A i \in 1..Len(notes) : notes[i].key \in recorded \cup {NoKey}
  /\ \A i, j \in 1..Len(notes) : notes[i].key = notes[j].key /\ notes[i].key # NoKey => i = j
  /\ \A key \in recorded :
       \/ \E i \in 1..Len(notes) : notes[i].key = key
       \/ key \in stops.alerts
       \/ alert.pc = "notify" /\ alert.key = key

\* A row is marked before it is pushed, unless its mark failed, and what is
\* still to be pushed is not.
DeliverInv ==
  /\ \/ deliver = Resting
     \/ deliver.pc = "mark"
     \/ deliver.pc = "send" /\ DOMAIN deliver = {"pc", "n", "todo", "push", "to"}
  /\ deliver # Resting =>
       \A n \in deliver.todo : n \in 1..Len(notes) /\ ~notes[n].pushed
  /\ deliver.pc = "send" =>
       /\ deliver.n \in 1..Len(notes) /\ (notes[deliver.n].pushed \/ deliver.n \in stops.unmarked)
       /\ \A e \in deliver.to :
            e \in Endpoints /\ (pushes[<<deliver.n, e>>] = 0 \/ deliver.n \in stops.unmarked)
  /\ \A n \in Ids, e \in Endpoints :
       /\ pushes[<<n, e>>] > 1 => n \in stops.unmarked
       /\ pushes[<<n, e>>] > 0 => n \in 1..Len(notes) /\ (notes[n].pushed \/ n \in stops.unmarked)

\* No browser is forgotten that a run set out to push to.
Sending(n, e) == deliver.pc = "send" /\ deliver.n = n /\ e \in deliver.to
OwedInv ==
  /\ owed \subseteq Ids \X Endpoints /\ unsent \subseteq Ids \X Endpoints
  /\ \A n \in Ids, e \in Endpoints :
       <<n, e>> \in owed => pushes[<<n, e>>] > 0 \/ <<n, e>> \in unsent \/ Sending(n, e)

\* A row that was mailed is marked, about to be, or was not for a stop or a failure.
DigestInv ==
  /\ digest = Resting \/ (digest.pc = "mark" /\ digest.ids \subseteq 1..Len(notes))
  /\ mails \in [Ids -> Nat]
  /\ digest # Resting => \A n \in digest.ids : mails[n] > 0
  /\ \A n \in Ids :
       /\ mails[n] > 1 => n \in stops.mails
       /\ mails[n] > 0 => \/ n \in 1..Len(notes) /\ notes[n].emailed
                          \/ digest # Resting /\ n \in digest.ids
                          \/ n \in stops.mails
  /\ \A n \in 1..Len(notes) : notes[n].emailed => mails[n] > 0

Note == [key : Keys \cup {NoKey}, read : BOOLEAN, old : BOOLEAN, pushed : BOOLEAN, emailed : BOOLEAN]

AlertsInv ==
  /\ AlertsTypeOK /\ notes \in Seq(Note)
  /\ pushes \in [Ids \X Endpoints -> Nat]
  /\ DOMAIN stops = {"alerts", "mails", "unmarked", "count"}
  /\ AlertInv /\ DeliverInv /\ OwedInv /\ DigestInv
=============================================================================
