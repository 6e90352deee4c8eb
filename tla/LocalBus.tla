---- MODULE LocalBus ----
(***************************************************************************)
(* The in-process message bus (w2uos-bus/src/lib.rs). A subject's           *)
(* subscribers are bounded channels in a list, and one RwLock guards the    *)
(* lists of all subjects. publish holds the read lock while it sends to one *)
(* subscriber after the other, waiting for room in each; subscribe takes    *)
(* the write lock. tokio's RwLock serves its waiters in order of arrival:   *)
(* a reader that comes after a waiting writer waits too.                    *)
(*                                                                          *)
(* A task that publishes (Publishers) has one subject and numbers its       *)
(* messages; a subscription (Receivers) is made once and may be dropped.    *)
(* Nothing ever takes a sender off its list.                                *)
(***************************************************************************)
EXTENDS Integers, Sequences

CONSTANTS
  BusSubjects,
  Publishers,
  Receivers,
  SubjectOf,   \* the subject of each publisher and receiver
  Draining,    \* the receivers whose task keeps receiving until it drops them
  Capacity,    \* of a channel, 1024 in the code
  MaxMsgs      \* bound on the messages of a publisher

ASSUME BusAssumption ==
  /\ Publishers \cap Receivers = {}
  /\ SubjectOf \in [Publishers \cup Receivers -> BusSubjects]
  /\ Draining \subseteq Receivers
  /\ Capacity \in Nat \ {0}
  /\ MaxMsgs \in Nat

VARIABLES
  subscribers,   \* subject -> its senders, in order of subscription
  chan,          \* receiver -> queued messages <<publisher, number>>
  dropped,       \* receivers that were dropped
  waitq,         \* the RwLock's waiters
  readers,       \* the publishers holding the read lock
  ppc,           \* publisher -> where it is in publish
  todo,          \* publisher -> subscribers it has still to send to
  sent,          \* publisher -> number of its last message
  got,           \* history: receiver -> messages received
  base           \* history: receiver -> messages of each publisher it came too late for

vars == <<subscribers, chan, dropped, waitq, readers, ppc, todo, sent, got, base>>

Joined(r) == \E i \in DOMAIN subscribers[SubjectOf[r]] : subscribers[SubjectOf[r]][i] = r
Waiting(t) == \E i \in DOMAIN waitq : waitq[i] = t

\* The messages of p that are out: the one being sent counts.
Started(p) == IF ppc[p] = "waiting" THEN sent[p] - 1 ELSE sent[p]

----
\* Faulty forms of the operations, kept to confirm that the properties fail
\* when the code is wrong.

\* publish with try_send: a full channel loses the message.
SendOrLose(p) ==
  /\ ppc[p] = "sending" /\ todo[p] # <<>>
  /\ LET r == Head(todo[p])
     IN  chan' = IF r \in dropped \/ Len(chan[r]) >= Capacity THEN chan
                 ELSE [chan EXCEPT ![r] = Append(@, <<p, sent[p]>>)]
  /\ todo' = [todo EXCEPT ![p] = Tail(@)]
  /\ UNCHANGED <<subscribers, dropped, waitq, readers, ppc, sent, got, base>>

\* publish through an unbounded channel.
SendUnbounded(p) ==
  /\ ppc[p] = "sending" /\ todo[p] # <<>>
  /\ LET r == Head(todo[p])
     IN  chan' = IF r \in dropped THEN chan
                 ELSE [chan EXCEPT ![r] = Append(@, <<p, sent[p]>>)]
  /\ todo' = [todo EXCEPT ![p] = Tail(@)]
  /\ UNCHANGED <<subscribers, dropped, waitq, readers, ppc, sent, got, base>>

\* publish that leaks its read guard.
ReturnLocked(p) ==
  /\ ppc[p] = "sending" /\ todo[p] = <<>>
  /\ ppc' = [ppc EXCEPT ![p] = "idle"]
  /\ UNCHANGED <<subscribers, chan, dropped, waitq, readers, todo, sent, got, base>>

\* subscribe that does not wait for the readers.
JoinAtOnce(r) ==
  /\ waitq # <<>> /\ Head(waitq) = r
  /\ waitq' = Tail(waitq)
  /\ subscribers' = [subscribers EXCEPT ![SubjectOf[r]] = Append(@, r)]
  /\ base' = [base EXCEPT ![r] = [p \in Publishers |-> Started(p)]]
  /\ UNCHANGED <<chan, dropped, readers, ppc, todo, sent, got>>

\* publish that keeps waiting for room in the channel of a dropped receiver.
SendToDropped(p) ==
  /\ ppc[p] = "sending" /\ todo[p] # <<>>
  /\ LET r == Head(todo[p])
     IN  /\ Len(chan[r]) < Capacity
         /\ chan' = [chan EXCEPT ![r] = Append(@, <<p, sent[p]>>)]
  /\ todo' = [todo EXCEPT ![p] = Tail(@)]
  /\ UNCHANGED <<subscribers, dropped, waitq, readers, ppc, sent, got, base>>

----
\* publish: the task asks for the read lock.
Publish(p) ==
  /\ ppc[p] = "idle" /\ sent[p] < MaxMsgs
  /\ ppc' = [ppc EXCEPT ![p] = "waiting"]
  /\ sent' = [sent EXCEPT ![p] = @ + 1]
  /\ waitq' = Append(waitq, p)
  /\ UNCHANGED <<subscribers, chan, dropped, readers, todo, got, base>>

\* publish has the lock and the subscribers of its subject.
ReadLock(p) ==
  /\ waitq # <<>> /\ Head(waitq) = p
  /\ waitq' = Tail(waitq)
  /\ readers' = readers \cup {p}
  /\ ppc' = [ppc EXCEPT ![p] = "sending"]
  /\ todo' = [todo EXCEPT ![p] = subscribers[SubjectOf[p]]]
  /\ UNCHANGED <<subscribers, chan, dropped, sent, got, base>>

\* One sender.send(..).await: waits for room; an error is ignored.
Send(p) ==
  /\ ppc[p] = "sending" /\ todo[p] # <<>>
  /\ LET r == Head(todo[p])
     IN  \/ r \in dropped /\ UNCHANGED chan
         \/ /\ r \notin dropped /\ Len(chan[r]) < Capacity
            /\ chan' = [chan EXCEPT ![r] = Append(@, <<p, sent[p]>>)]
  /\ todo' = [todo EXCEPT ![p] = Tail(@)]
  /\ UNCHANGED <<subscribers, dropped, waitq, readers, ppc, sent, got, base>>

\* publish returns and releases the lock.
Return(p) ==
  /\ ppc[p] = "sending" /\ todo[p] = <<>>
  /\ ppc' = [ppc EXCEPT ![p] = "idle"]
  /\ readers' = readers \ {p}
  /\ UNCHANGED <<subscribers, chan, dropped, waitq, todo, sent, got, base>>

\* subscribe: the task asks for the write lock.
Subscribe(r) ==
  /\ ~Joined(r) /\ ~Waiting(r)
  /\ waitq' = Append(waitq, r)
  /\ UNCHANGED <<subscribers, chan, dropped, readers, ppc, todo, sent, got, base>>

\* subscribe has the lock, pushes its sender and returns, in one poll.
Join(r) ==
  /\ waitq # <<>> /\ Head(waitq) = r /\ readers = {}
  /\ waitq' = Tail(waitq)
  /\ subscribers' = [subscribers EXCEPT ![SubjectOf[r]] = Append(@, r)]
  /\ base' = [base EXCEPT ![r] = [p \in Publishers |-> Started(p)]]
  /\ UNCHANGED <<chan, dropped, readers, ppc, todo, sent, got>>

\* The owner of a subscription receives.
Recv(r) ==
  /\ r \notin dropped /\ chan[r] # <<>>
  /\ got' = [got EXCEPT ![r] = Append(@, Head(chan[r]))]
  /\ chan' = [chan EXCEPT ![r] = Tail(@)]
  /\ UNCHANGED <<subscribers, dropped, waitq, readers, ppc, todo, sent, base>>

\* The owner of a subscription ends; what is queued is gone.
Drop(r) ==
  /\ Joined(r) /\ r \notin dropped
  /\ dropped' = dropped \cup {r}
  /\ chan' = [chan EXCEPT ![r] = <<>>]
  /\ UNCHANGED <<subscribers, waitq, readers, ppc, todo, sent, got, base>>

Init ==
  /\ subscribers = [s \in BusSubjects |-> <<>>]
  /\ chan = [r \in Receivers |-> <<>>]
  /\ dropped = {}
  /\ waitq = <<>>
  /\ readers = {}
  /\ ppc = [p \in Publishers |-> "idle"]
  /\ todo = [p \in Publishers |-> <<>>]
  /\ sent = [p \in Publishers |-> 0]
  /\ got = [r \in Receivers |-> <<>>]
  /\ base = [r \in Receivers |-> [p \in Publishers |-> 0]]

PublisherStep(p) == ReadLock(p) \/ Send(p) \/ Return(p)

Next ==
  \/ \E p \in Publishers : Publish(p) \/ PublisherStep(p)
  \/ \E r \in Receivers : Subscribe(r) \/ Join(r) \/ Recv(r) \/ Drop(r)

Spec == Init /\ [][Next]_vars

\* A task that can go on does; tokio's channels serve waiting senders in
\* order, so one that waits for room gets it if room keeps appearing. Only
\* the draining receivers are sure to be emptied.
FairSpec ==
  /\ Spec
  /\ \A p \in Publishers : WF_vars(ReadLock(p)) /\ SF_vars(Send(p)) /\ WF_vars(Return(p))
  /\ \A r \in Receivers : WF_vars(Join(r))
  /\ \A r \in Draining : WF_vars(Recv(r))

----
\* The types of the lock, the lists and the queues; a channel never holds more
\* than its capacity, and a task waits for the lock once.
TypeOK ==
  /\ \A s \in BusSubjects : subscribers[s] \in Seq(Receivers)
  /\ \A r \in Receivers :
       chan[r] \in Seq(Publishers \X (1..MaxMsgs)) /\ Len(chan[r]) <= Capacity
  /\ dropped \subseteq Receivers
  /\ waitq \in Seq(Publishers \cup Receivers)
  /\ \A i, j \in DOMAIN waitq : waitq[i] = waitq[j] => i = j
  /\ readers = {p \in Publishers : ppc[p] = "sending"}
  /\ \A p \in Publishers : Waiting(p) <=> ppc[p] = "waiting"

\* What r was handed, received and then queued.
Handed(r) == got[r] \o chan[r]

\* p is in publish and has not come to r yet.
StillToCome(p, r) == \E i \in DOMAIN todo[p] : todo[p][i] = r

\* The bus neither loses, repeats nor reorders: what a live subscriber was
\* handed by a publisher of its subject is every message since it joined, each
\* once and in order, but for the one being sent to others before it.
NothingLost ==
  \A r \in Receivers, p \in Publishers :
    Joined(r) /\ r \notin dropped /\ SubjectOf[p] = SubjectOf[r] =>
      LET n  == Started(p) - (IF StillToCome(p, r) THEN 1 ELSE 0)
          of == {i \in DOMAIN Handed(r) : Handed(r)[i][1] = p}
      IN  /\ {Handed(r)[i][2] : i \in of} = (base[r][p] + 1)..n
          /\ \A i, j \in of : i < j => Handed(r)[i][2] < Handed(r)[j][2]

\* Nobody joins a subject while a message goes round: what a publisher has
\* still to serve is the tail of the current list.
ListIsStable ==
  \A p \in Publishers :
    ppc[p] = "sending" =>
      LET all == subscribers[SubjectOf[p]]
          k   == Len(all) - Len(todo[p])
      IN  k >= 0 /\ todo[p] = SubSeq(all, k + 1, Len(all))

\* One subscription as its owner sees it: a message is published in one step,
\* when there is room. The RwLock is not part of this view.
joined == {r \in Receivers : Joined(r)}
clientView == <<chan, joined>>
Channels == INSTANCE BusChannels
              WITH Cap <- Capacity, subscribed <- joined, holding <- {}, asking <- {}

ChannelStep(r) ==
  \/ Channels!Subscribe(r)
  \/ Channels!Receive(r)
  \/ \E p \in Publishers, n \in 1..MaxMsgs :
       r \notin dropped /\ Channels!Publish(p, r, <<p, n>>)

\* Nothing else happens to what is queued for a subscription until its owner
\* drops it. This is safety only: when publish and subscribe return is what the
\* next two properties are about.
ClientStep == \E r \in Receivers : ChannelStep(r) \/ Drop(r)
ImplementsChannels == [][ClientStep]_clientView

\* publish returns if every receiver of its own subject is drained or dropped,
\* but only as long as no subscription hangs: a publisher without room on
\* another subject keeps the read lock, and whoever asks to subscribe then, to
\* whatever subject, keeps all later publishers out.
PublishReturns ==
  \A p \in Publishers :
    /\ \A r \in Receivers : SubjectOf[r] = SubjectOf[p] => r \in Draining
    /\ []<>(\A r \in Receivers : ~Waiting(r))
    => ((ppc[p] = "waiting") ~> (ppc[p] = "idle"))

\* subscribe returns if there is room again and again in every channel of the
\* bus, also of those of other subjects, that nobody dropped.
SubscribeReturns ==
  (\A q \in Receivers : []<>(q \in dropped \/ Len(chan[q]) < Capacity)) =>
    \A r \in Receivers : Waiting(r) ~> Joined(r)
====
