------------------------------- MODULE MemoryMQ -------------------------------
(***************************************************************************)
(* The in-memory message-queue client mq/memory.Client: the same          *)
(* Resource life cycle as a storage (Connect / Ping / Close over          *)
(* mq.Base.state) plus Publish, Subscribe and Unsubscribe over a map      *)
(* topic -> buffered channels, and one consumer goroutine per             *)
(* subscription (SubscribeOptions.Concurrency defaults to 1).             *)
(*                                                                         *)
(* Every caller goroutine runs a script Workload[t] of calls, one call at  *)
(* a time.  A call is split into the steps the code performs atomically:   *)
(* an atomic load or CAS, one critical section under c.mu, one channel     *)
(* send.  A subscription is identified by its channel number k; its       *)
(* context.CancelFunc is k itself, and `cancelled` is the set of          *)
(* subscriptions whose context is done.  Message ids stand for the uuid   *)
(* Publish draws; payload, key, headers and the Stats counters are not    *)
(* modelled (no property reads them), and the handler's result with its   *)
(* retry loop is one step.                                                 *)
(***************************************************************************)
EXTENDS Naturals, Sequences, SequencesExt

CONSTANTS
    Threads,      \* caller goroutines
    Topics,       \* topic names
    Workload,     \* Workload[t]: the sequence of calls goroutine t makes
    ChanCap,      \* capacity of a subscription channel (100 in the code)
    MaxSubs,      \* bound on the number of channels Subscribe makes
    MaxMsgs       \* bound on the number of messages Publish makes

Ops == {"Connect", "Ping", "Publish", "Subscribe", "Unsubscribe", "Close"}

ASSUME \A t \in Threads : Workload[t] \in Seq(Ops)

Chans == 1..MaxSubs
Msgs  == 1..MaxMsgs

VARIABLES
    state,        \* mq.Base.state
    closed,       \* Client.closed (atomic.Bool)
    topics,       \* Client.topics: topic -> sequence of channels
    subscribers,  \* Client.subscribers: topic -> cancel of a channel, 0 if none
    cancelled,    \* subscriptions whose context has been cancelled
    buf,          \* buf[k]: messages buffered in channel k
    cons,         \* cons[k]: the consumer goroutine of channel k
    cmsg,         \* cmsg[k]: the message consumer k is handling
    handled,      \* <<k, m>>: consumer k ran the handler on message m
    nchans,       \* channels made so far
    nmsgs,        \* messages made so far
    th            \* per caller goroutine: its call in progress

vars == <<state, closed, topics, subscribers, cancelled, buf, cons, cmsg,
          handled, nchans, nmsgs, th>>

States == {"Disconnected", "Connecting", "Connected", "Disconnecting"}

Idle(n) == [pc |-> "idle", top |-> CHOOSE x \in Topics : TRUE, msg |-> 0,
            snap |-> <<>>, i |-> 0, n |-> n]

TypeOK ==
    /\ state \in States
    /\ closed \in BOOLEAN
    /\ topics \in [Topics -> Seq(Chans)]
    /\ subscribers \in [Topics -> Chans \cup {0}]
    /\ cancelled \subseteq Chans
    /\ buf \in [Chans -> Seq(Msgs)]
    /\ \A k \in Chans : Len(buf[k]) <= ChanCap
    /\ cons \in [Chans -> {"none", "run", "handle", "exited"}]
    /\ cmsg \in [Chans -> Msgs \cup {0}]
    /\ handled \subseteq Chans \X Msgs
    /\ nchans \in 0..MaxSubs
    /\ nmsgs \in 0..MaxMsgs
    /\ \A t \in Threads : th[t].n \in 0..Len(Workload[t])

Init ==
    /\ state = "Disconnected"
    /\ closed = FALSE
    /\ topics = [x \in Topics |-> <<>>]
    /\ subscribers = [x \in Topics |-> 0]
    /\ cancelled = {}
    /\ buf = [k \in Chans |-> <<>>]
    /\ cons = [k \in Chans |-> "none"]
    /\ cmsg = [k \in Chans |-> 0]
    /\ handled = {}
    /\ nchans = 0
    /\ nmsgs = 0
    /\ th = [t \in Threads |-> Idle(0)]

Op(t) == Workload[t][th[t].n]

At(t, pc) == th[t].pc = pc /\ th[t].pc # "idle"

Goto(t, pc) == th' = [th EXCEPT ![t].pc = pc]

Return(t) == th' = [th EXCEPT ![t] = Idle(th[t].n)]

(* Goroutine t starts the next call of its script on some topic. *)
Call(t) ==
    /\ th[t].pc = "idle"
    /\ th[t].n < Len(Workload[t])
    /\ \E x \in Topics :
         th' = [th EXCEPT ![t] = [Idle(th[t].n + 1) EXCEPT !.pc = "call", !.top = x]]
    /\ UNCHANGED <<state, closed, topics, subscribers, cancelled, buf, cons,
                   cmsg, handled, nchans, nmsgs>>

Client   == <<state, closed, topics, subscribers, cancelled, buf, nchans, nmsgs>>
ConsVars == <<cons, cmsg, handled>>

(* Connect: CAS Disconnected -> Connecting, failing fast otherwise, then   *)
(* SetState(Connected); there is no I/O to fail.                          *)
ConnectCAS(t) ==
    /\ At(t, "call") /\ Op(t) = "Connect"
    /\ IF state = "Disconnected"
         THEN state' = "Connecting" /\ Goto(t, "c_set")
         ELSE Return(t) /\ UNCHANGED state
    /\ UNCHANGED <<closed, topics, subscribers, cancelled, buf, nchans, nmsgs, ConsVars>>

ConnectSet(t) ==
    /\ At(t, "c_set")
    /\ state' = "Connected"
    /\ Return(t)
    /\ UNCHANGED <<closed, topics, subscribers, cancelled, buf, nchans, nmsgs, ConsVars>>

(* Ping: one load of the state; the client keeps no other handle, so it *)
(* succeeds exactly when the state is Connected.                          *)
Ping(t) ==
    /\ At(t, "call") /\ Op(t) = "Ping"
    /\ Return(t)
    /\ UNCHANGED <<Client, ConsVars>>

(* Publish: load `closed`, make the message, snapshot topics[topic] under *)
(* RLock, try a non-blocking send on each channel of the snapshot, then   *)
(* IncPublished and return.                                               *)
PublishCheck(t) ==
    /\ At(t, "call") /\ Op(t) = "Publish"
    /\ IF closed
         THEN Return(t) /\ UNCHANGED nmsgs
         ELSE /\ nmsgs < MaxMsgs
              /\ nmsgs' = nmsgs + 1
              /\ th' = [th EXCEPT ![t].pc = "p_snap", ![t].msg = nmsgs + 1]
    /\ UNCHANGED <<state, closed, topics, subscribers, cancelled, buf, nchans, ConsVars>>

PublishSnapshot(t) ==
    /\ At(t, "p_snap")
    /\ th' = [th EXCEPT ![t].pc = "p_send", ![t].snap = topics[th[t].top], ![t].i = 1]
    /\ UNCHANGED <<Client, ConsVars>>

(* One iteration of the send loop: select { case ch <- msg: default: }. *)
Send(b, m) == IF Len(b) < ChanCap THEN Append(b, m) ELSE b

PublishSend(t) ==
    /\ At(t, "p_send")
    /\ th[t].i <= Len(th[t].snap)
    /\ LET k == th[t].snap[th[t].i]
       IN  buf' = [buf EXCEPT ![k] = Send(@, th[t].msg)]
    /\ th' = [th EXCEPT ![t].i = @ + 1]
    /\ UNCHANGED <<state, closed, topics, subscribers, cancelled, nchans, nmsgs, ConsVars>>

PublishDone(t) ==
    /\ At(t, "p_send")
    /\ th[t].i > Len(th[t].snap)
    /\ Return(t)
    /\ UNCHANGED <<Client, ConsVars>>

(* Subscribe: load `closed`; make the channel and append it to           *)
(* topics[topic] under Lock; then, under a second Lock, store the cancel *)
(* of the new context in subscribers[topic] (overwriting any earlier one) *)
(* and start the consumer goroutine.                                      *)
SubscribeCheck(t) ==
    /\ At(t, "call") /\ Op(t) = "Subscribe"
    /\ IF closed THEN Return(t) ELSE Goto(t, "s_reg")
    /\ UNCHANGED <<Client, ConsVars>>

SubscribeRegister(t) ==
    /\ At(t, "s_reg")
    /\ nchans < MaxSubs
    /\ nchans' = nchans + 1
    /\ topics' = [topics EXCEPT ![th[t].top] = Append(@, nchans + 1)]
    /\ th' = [th EXCEPT ![t].pc = "s_cancel", ![t].i = nchans + 1]
    /\ UNCHANGED <<state, closed, subscribers, cancelled, buf, nmsgs, ConsVars>>

SubscribeStart(t) ==
    /\ At(t, "s_cancel")
    /\ subscribers' = [subscribers EXCEPT ![th[t].top] = th[t].i]
    /\ cons' = [cons EXCEPT ![th[t].i] = "run"]
    /\ Return(t)
    /\ UNCHANGED <<state, closed, topics, cancelled, buf, nchans, nmsgs, cmsg, handled>>

(* Unsubscribe: one critical section; cancel the stored subscription of  *)
(* the topic, if any, and delete the topic's entries.                    *)
Unsubscribe(t) ==
    /\ At(t, "call") /\ Op(t) = "Unsubscribe"
    /\ LET x == th[t].top IN
         /\ cancelled' = cancelled \cup ({subscribers[x]} \ {0})
         /\ subscribers' = [subscribers EXCEPT ![x] = 0]
         /\ topics' = [topics EXCEPT ![x] = <<>>]
    /\ Return(t)
    /\ UNCHANGED <<state, closed, buf, nchans, nmsgs, ConsVars>>

(* Close: CAS closed false -> true (a second Close returns nil), then     *)
(* SetState(Disconnecting), then under Lock cancel every stored           *)
(* subscription and reset the maps, then SetState(Disconnected).  There  *)
(* is no check of the state it starts from.                               *)
CloseCAS(t) ==
    /\ At(t, "call") /\ Op(t) = "Close"
    /\ IF closed THEN Return(t) ELSE Goto(t, "k_state")
    /\ closed' = TRUE
    /\ UNCHANGED <<state, topics, subscribers, cancelled, buf, nchans, nmsgs, ConsVars>>

CloseState(t) ==
    /\ At(t, "k_state")
    /\ state' = "Disconnecting"
    /\ Goto(t, "k_cancel")
    /\ UNCHANGED <<closed, topics, subscribers, cancelled, buf, nchans, nmsgs, ConsVars>>

CancelAll(subs) == {subs[x] : x \in Topics} \ {0}

CloseCancel(t) ==
    /\ At(t, "k_cancel")
    /\ cancelled' = cancelled \cup CancelAll(subscribers)
    /\ subscribers' = [x \in Topics |-> 0]
    /\ topics' = [x \in Topics |-> <<>>]
    /\ Goto(t, "k_done")
    /\ UNCHANGED <<state, closed, buf, nchans, nmsgs, ConsVars>>

CloseDone(t) ==
    /\ At(t, "k_done")
    /\ state' = "Disconnected"
    /\ Return(t)
    /\ UNCHANGED <<closed, topics, subscribers, cancelled, buf, nchans, nmsgs, ConsVars>>

Step(t) ==
    \/ ConnectCAS(t) \/ ConnectSet(t) \/ Ping(t)
    \/ PublishCheck(t) \/ PublishSnapshot(t) \/ PublishSend(t) \/ PublishDone(t)
    \/ SubscribeCheck(t) \/ SubscribeRegister(t) \/ SubscribeStart(t)
    \/ Unsubscribe(t)
    \/ CloseCAS(t) \/ CloseState(t) \/ CloseCancel(t) \/ CloseDone(t)

(* The consumer goroutine of channel k: select { case <-ctx.Done():      *)
(* return; case msg := <-ch: ... }.  When both are ready Go picks either. *)
ConsumeExit(k) ==
    /\ cons[k] = "run" /\ k \in cancelled
    /\ cons' = [cons EXCEPT ![k] = "exited"]
    /\ UNCHANGED <<Client, cmsg, handled, th>>

ConsumeRecv(k) ==
    /\ cons[k] = "run" /\ buf[k] # <<>>
    /\ cons' = [cons EXCEPT ![k] = "handle"]
    /\ cmsg' = [cmsg EXCEPT ![k] = Head(buf[k])]
    /\ buf' = [buf EXCEPT ![k] = Tail(@)]
    /\ UNCHANGED <<state, closed, topics, subscribers, cancelled, nchans, nmsgs, handled, th>>

(* The handler with its retries (no check of ctx in between), then       *)
(* IncErrors or IncConsumed, and back to the select.                      *)
ConsumeHandle(k) ==
    /\ cons[k] = "handle"
    /\ handled' = handled \cup {<<k, cmsg[k]>>}
    /\ cons' = [cons EXCEPT ![k] = "run"]
    /\ cmsg' = [cmsg EXCEPT ![k] = 0]
    /\ UNCHANGED <<Client, th>>

Consumer(k) == ConsumeExit(k) \/ ConsumeRecv(k) \/ ConsumeHandle(k)

Next ==
    \/ \E t \in Threads : Call(t) \/ Step(t)
    \/ \E k \in Chans : Consumer(k)

(* Goroutines that are running are scheduled: every step of a call and  *)
(* every consumer step is weakly fair; starting a call is not.           *)
Spec ==
    /\ Init /\ [][Next]_vars
    /\ \A t \in Threads : WF_vars(Step(t))
    /\ \A k \in Chans : WF_vars(Consumer(k))


-----------------------------------------------------------------------------
(* Properties *)

Stopped(k) == cons[k] \in {"none", "exited"}

(* Consumer.Close ("close the consumer", mq.go:24) and the cancel loop of *)
(* Client.Close: once the client is closed, every consumer goroutine     *)
(* Subscribe started eventually returns.  Subscribe stores one cancel per topic, replacing *)
(* the cancel of an earlier subscription to the topic, and Close cancels *)
(* only the stored ones.                                                  *)
ConsumersStopAfterClose == <>[](closed => \A k \in Chans : Stopped(k))

==============================================================================
