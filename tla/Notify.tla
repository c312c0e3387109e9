------------------------------- MODULE Notify -------------------------------
(***************************************************************************)
(* How a page of the console follows the server: the broadcast channel of  *)
(* events, the long poll of web/api.rs, and the loads of static/js/app.js  *)
(* with their timers.  Pages share nothing, so there is one.               *)
(*                                                                         *)
(* What the page shows of a topic is reduced to a version: the n-th change *)
(* of a topic makes its version n.  None stands for "load failed".         *)
(***************************************************************************)
EXTENDS Integers, Sequences, SequencesExt

CONSTANTS
  None,
  Capacity,    \* of broadcast::channel
  MaxChanges,  \* bound on the changes
  MaxLoads,    \* for each topic, bound on the loads under way
  MaxFaults    \* bound on failing requests of the page

Topics == {"requests", "backends"}

ASSUME NotifyAssumption ==
  /\ Capacity \in Nat \ {0} /\ MaxChanges \in Nat
  /\ MaxLoads \in [Topics -> Nat \ {0}] /\ MaxFaults \in Nat

VARIABLES
  version,  \* the state of the server
  unsent,   \* for each topic, changes made and not yet announced
  poll,     \* the long poll, with what was sent since it subscribed: unread
  loads,    \* for each topic the requests under way, a bag
  shown,    \* what the page shows
  editing,  \* isUserEditingBackends
  faults,   \* how many requests have failed
  missed    \* history: the page missed a change, and the timer must help

vars == <<version, unsent, poll, loads, shown, editing, faults, missed>>

Off == [at |-> "off"]
Loading(t, forced) == [forced |-> forced /\ t = "backends", read |-> None]

(* init(): the first loads, forced; the poll is still to be started. *)
Init ==
  /\ version = [t \in Topics |-> 0]
  /\ unsent = [t \in Topics |-> 0]
  /\ poll = Off
  /\ loads = [t \in Topics |-> SetToBag({Loading(t, TRUE)})]
  /\ shown = [t \in Topics |-> None]
  /\ editing = FALSE
  /\ faults = 0
  /\ missed = [t \in Topics |-> FALSE]

----------------------------------------------------------------------------
(* The server's side *)

(* Any handler that changes something changes it first. *)
Change(t) ==
  /\ version["requests"] + version["backends"] < MaxChanges
  /\ version' = [version EXCEPT ![t] = @ + 1]
  /\ unsent' = [unsent EXCEPT ![t] = @ + 1]
  /\ UNCHANGED <<poll, loads, shown, editing, faults, missed>>

Subscribed == poll.at \in {"waiting", "draining"}

\* Variant of Announce: a handler that has changed nothing sends too.
AnnounceAnyway(t) ==
  /\ unsent' = [unsent EXCEPT ![t] = @ - 1]
  /\ poll' = IF Subscribed THEN [poll EXCEPT !.unread = Append(@, t)] ELSE poll
  /\ missed' = [missed EXCEPT ![t] = @ \/ ~ Subscribed]
  /\ UNCHANGED <<version, loads, shown, editing, faults>>

(* notify_tx.send: without a receiver the event is gone. *)
Announce(t) ==
  /\ unsent[t] > 0
  /\ unsent' = [unsent EXCEPT ![t] = @ - 1]
  /\ poll' = IF Subscribed THEN [poll EXCEPT !.unread = Append(@, t)] ELSE poll
  /\ missed' = [missed EXCEPT ![t] = @ \/ ~ Subscribed]
  /\ UNCHANGED <<version, loads, shown, editing, faults>>

(* The client of a call has left: its handler is dropped at the await      *)
(* between update_response and the send, and nobody sends.  The model lets *)
(* any change of the requests end so; the edits of the backends have no    *)
(* await there.                                                            *)
Unannounced ==
  /\ unsent["requests"] > 0
  /\ unsent' = [unsent EXCEPT !["requests"] = @ - 1]
  /\ missed' = [missed EXCEPT !["requests"] = TRUE]
  /\ UNCHANGED <<version, poll, loads, shown, editing, faults>>

(* The page polls and the handler subscribes: a receiver sees what is sent *)
(* from now on.                                                            *)
Subscribe ==
  /\ poll.at = "off"
  /\ poll' = [at |-> "waiting", unread |-> << >>, events |-> {}]
  /\ UNCHANGED <<version, unsent, loads, shown, editing, faults, missed>>

(* The channel holds Capacity events; older ones the receiver has lost. *)
Lost == Len(poll.unread) - Capacity
Lagged == Len(poll.unread) > Capacity

Miss(topics) == missed' = [t \in Topics |-> missed[t] \/ t \in topics]

(* recv: one event, or Lagged, which ends the wait as an event does. *)
Receive ==
  /\ poll.at = "waiting" /\ poll.unread # << >>
  /\ IF Lagged
     THEN /\ poll' = [poll EXCEPT !.at = "draining",
                                  !.unread = SubSeq(@, Lost + 1, Len(@))]
          /\ Miss(ToSet(SubSeq(poll.unread, 1, Lost)))
     ELSE /\ poll' = [at |-> "draining", unread |-> Tail(poll.unread),
                      events |-> {Head(poll.unread)}]
          /\ UNCHANGED missed
  /\ UNCHANGED <<version, unsent, loads, shown, editing, faults>>

(* sleep_until: may win although an event is there. *)
Timeout ==
  /\ poll.at = "waiting"
  /\ poll' = [poll EXCEPT !.at = "draining"]
  /\ UNCHANGED <<version, unsent, loads, shown, editing, faults, missed>>

(* try_recv: an event; or, when there is none or the receiver lags, the    *)
(* answer.                                                                 *)
Drain ==
  /\ poll.at = "draining"
  /\ IF poll.unread # << >> /\ ~ Lagged
     THEN /\ poll' = [poll EXCEPT !.unread = Tail(@), !.events = @ \cup {Head(poll.unread)}]
          /\ UNCHANGED missed
     ELSE /\ poll' = [poll EXCEPT !.at = "answered", !.unread = << >>]
          /\ Miss(ToSet(poll.unread))
  /\ UNCHANGED <<version, unsent, loads, shown, editing, faults>>

----------------------------------------------------------------------------
(* The page's side *)

(* loadBackendsAndStatus does nothing while the user edits, unless forced. *)
Held(t, forced) == t = "backends" /\ editing /\ ~ forced

One(load) == SetToBag({load})

(* The requests of a bag, equal ones told apart. *)
Copies(b) == UNION {{load} \X (1 .. b[load]) : load \in DOMAIN b}
UnderWay(t) == Cardinality(Copies(loads[t]))

(* The loads of some topics begin. *)
Load(topics, forced) ==
  LET begun == {t \in topics : ~ Held(t, forced)} IN
  /\ \A t \in begun : UnderWay(t) < MaxLoads[t]
  /\ loads' = [t \in Topics |->
       IF t \in begun THEN loads[t] (+) One(Loading(t, forced)) ELSE loads[t]]
  /\ Miss(topics \ begun)

\* Variant of Answer: two events are one too many.
AnswerOne ==
  /\ poll.at = "answered"
  /\ poll' = Off
  /\ Load(IF "requests" \in poll.events THEN {"requests"} ELSE poll.events, FALSE)
  /\ UNCHANGED <<version, unsent, shown, editing, faults>>

(* startNotifyPoll: what the events name is loaded, and the next poll sent. *)
Answer ==
  /\ poll.at = "answered"
  /\ poll' = Off
  /\ Load(poll.events, FALSE)
  /\ UNCHANGED <<version, unsent, shown, editing, faults>>

(* The poll fails: what its receiver has seen is lost; the next one comes  *)
(* after NOTIFY_RETRY_MS.                                                  *)
PollFails ==
  /\ poll.at # "off" /\ faults < MaxFaults
  /\ poll' = Off
  /\ faults' = faults + 1
  /\ Miss(poll.events \cup ToSet(poll.unread))
  /\ UNCHANGED <<version, unsent, loads, shown, editing>>

\* Variant of Fallback: the timer reloads the requests.
FallbackRequests ==
  /\ Load({"requests"}, FALSE)
  /\ UNCHANGED <<version, unsent, poll, shown, editing, faults>>

(* setInterval, FALLBACK_POLL_INTERVAL_MS *)
Fallback ==
  /\ Load(Topics, FALSE)
  /\ UNCHANGED <<version, unsent, poll, shown, editing, faults>>

(* tryReconnect, and the reload after the page's own edits. *)
Reload ==
  /\ Load(Topics, TRUE)
  /\ UNCHANGED <<version, unsent, poll, shown, editing, faults>>

(* The handler of a load reads the state. *)
Read(t) ==
  /\ \E load \in BagToSet(loads[t]) :
       /\ load.read = None
       /\ loads' = [loads EXCEPT ![t] =
            (@ (-) One(load)) (+) One([load EXCEPT !.read = version[t]])]
  /\ UNCHANGED <<version, unsent, poll, shown, editing, faults, missed>>

(* Its answer arrives, in any order; what an older one shows replaces what *)
(* a newer one showed.                                                     *)
Deliver(t) ==
  /\ \E load \in BagToSet(loads[t]) :
       /\ load.read # None
       /\ IF Held(t, load.forced)
          THEN Miss({t}) /\ UNCHANGED shown
          ELSE /\ shown' = [shown EXCEPT ![t] = load.read]
               /\ missed' = [missed EXCEPT ![t] =
                    IF load.read = version[t] THEN FALSE
                    ELSE @ \/ shown[t] \in load.read + 1 .. MaxChanges]
       /\ loads' = [loads EXCEPT ![t] = @ (-) One(load)]
  /\ UNCHANGED <<version, unsent, poll, editing, faults>>

(* The list is emptied, whatever the user does. *)
LoadFails(t) ==
  /\ faults < MaxFaults
  /\ \E load \in BagToSet(loads[t]) : loads' = [loads EXCEPT ![t] = @ (-) One(load)]
  /\ shown' = [shown EXCEPT ![t] = None]
  /\ faults' = faults + 1
  /\ Miss({t})
  /\ UNCHANGED <<version, unsent, poll, editing>>

(* The focus enters or leaves a field of the list. *)
Focus ==
  /\ editing' = ~ editing
  /\ UNCHANGED <<version, unsent, poll, loads, shown, faults, missed>>

Next ==
  \/ \E t \in Topics : \/ Change(t) \/ Announce(t)
                       \/ Read(t) \/ Deliver(t) \/ LoadFails(t)
  \/ Unannounced
  \/ Subscribe \/ Receive \/ Timeout \/ Drain
  \/ Answer \/ PollFails \/ Fallback \/ Reload
  \/ Focus

(* The server's tasks and the browser's timers run on, so a change is      *)
(* announced unless its handler is dropped; every request that does not    *)
(* fail is answered.  Nobody must change anything, leave, reload or move   *)
(* the focus, and nothing must fail.                                       *)
Fairness ==
  /\ \A t \in Topics : WF_vars(Announce(t))
  /\ WF_vars(Subscribe) /\ WF_vars(Receive \/ Timeout)
  /\ WF_vars(Drain) /\ WF_vars(Answer)
  /\ WF_vars(Fallback)
  /\ \A t \in Topics : WF_vars(Read(t)) /\ WF_vars(Deliver(t))

Spec == Init /\ [][Next]_vars /\ Fairness

----------------------------------------------------------------------------
Versions == 0 .. MaxChanges

(* The type invariant. *)
TypeOK ==
  /\ version \in [Topics -> Versions] /\ unsent \in [Topics -> Versions]
  /\ \/ poll = Off
     \/ poll \in [at : {"waiting", "draining", "answered"}, unread : Seq(Topics),
                  events : SUBSET Topics]
  /\ \A t \in Topics :
       /\ IsABag(loads[t]) /\ UnderWay(t) <= MaxLoads[t]
       /\ BagToSet(loads[t]) \subseteq [forced : BOOLEAN, read : Versions \cup {None}]
  /\ shown \in [Topics -> Versions \cup {None}]
  /\ editing \in BOOLEAN /\ faults \in 0 .. MaxFaults
  /\ missed \in [Topics -> BOOLEAN]

(* A change of t the page can still learn of without the timer. *)
Coming(t) ==
  \/ loads[t] # EmptyBag
  \/ unsent[t] > 0
  \/ poll # Off /\ (t \in poll.events \/ t \in ToSet(poll.unread))

(* A page that shows an old version, with nothing under way that would     *)
(* tell it so, has missed a change in one of the ways named where missed   *)
(* becomes true: it was never sent, since its handler was dropped, or sent *)
(* between two polls, or the poll lagged or failed, or the load failed,    *)
(* was held because the user edits, or was overtaken by a newer one.       *)
StaleForAReason ==
  \A t \in Topics : shown[t] # version[t] /\ ~ Coming(t) => missed[t]

(* A page whose user does not edit for ever comes to show the last version *)
(* of everything and stays there, whatever it has missed (doc/design.md,   *)
(* "long polling with an interval as the fallback": the interval is what   *)
(* makes it so).                                                           *)
EventuallyFresh == <>[](~ editing) => <>[](shown = version)
=============================================================================
