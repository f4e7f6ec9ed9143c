------------------------------ MODULE GooseBus ------------------------------
(***************************************************************************)
(* GOOSE end to end: publishers with their retransmission schedule          *)
(* (iec61850-goose/src/publisher.rs), the GOOSE control blocks clients      *)
(* switch them on with (server/src/goose_mapping), an Ethernet that loses,  *)
(* repeats, pads and cuts frames but keeps their order, and the receiver    *)
(* with its subscribers (receiver.rs, subscriber.rs).                       *)
(*                                                                         *)
(* A publisher is driven by the application, which publishes when tick()    *)
(* says so and the control block is enabled, or owned by the retransmission *)
(* loop.  Time passes in ticks; a publication that is due is made within    *)
(* the tick, and a frame travels for at most MaxTransit ticks.              *)
(***************************************************************************)
EXTENDS BusFrame, Sequences, FiniteSets, FiniteSetsExt, SequencesExt

CONSTANTS Publishers,
          Config,       \* [Publishers -> [ref, sim, comm, ed21, min, max, addressed]]
          DataSets,     \* the data sets a control block can be given
          SubscriberConfs, \* the subscribers: [ref, app, dst, sim, max]
          Unset,          \* a filter that is not set
          NumMax,       \* u32::MAX, for stNum, sqNum and confRev
          PduSize, FrameMax,
          MaxTransit,
          GbScenarios    \* what may happen: [pubs, subs, loss, dup, change, write, tick, admin]

VARIABLES gpub,   \* [Publishers -> publisher]
          gnet,   \* [Publishers -> the frames on their way, oldest first]
          gsubs,  \* the receiver's subscribers, by index; Unset once removed
          gindex, \* the receiver's index: [app |-> [APPID -> indices], wild |-> indices]
          grun,   \* the receiver: idle, running, thread, stopping, gone
          ggap,   \* history: a frame of the publisher was lost since the last one that arrived
          gidle,  \* history: the publisher was not publishing since then
          gleft   \* bounds: what may still happen

gbVars == << gpub, gnet, gsubs, gindex, grun, ggap, gidle, gleft >>

-----------------------------------------------------------------------------
(* Retransmission.                                                           *)

Phases == << "T1", "T2", "T3", "T4", "Stable" >>

Least(x, y) == IF x < y THEN x ELSE y
Most(x, y) == IF x > y THEN x ELSE y

\* from_min_max(): the interval doubles from phase to phase.
RetransIntervals(min, max) ==
    LET t1   == Most(min, 1)
        tmax == Most(max, t1)
    IN  [n \in 1 .. 5 |-> IF n = 5 THEN tmax ELSE IF n = 1 THEN t1 ELSE Least(t1 * 2 ^ (n - 1), tmax)]

Interval(p) == RetransIntervals(Config[p].min, Config[p].max)[gpub[p].phase]

Advance(n) == Least(n + 1, Len(Phases))

TimeAllowedToLive(p) == 2 * Interval(p)

\* Zero means something else in stNum, sqNum and confRev: they wrap to one.
Successor(n) == IF n = NumMax THEN 1 ELSE n + 1

-----------------------------------------------------------------------------
(* Subscribers.                                                              *)

NewSubscriber(conf) == [conf |-> conf, streams |-> << >>, order |-> << >>]

MatchesFrame(sub, h) ==
    /\ sub.conf.app = Unset \/ sub.conf.app = h.app
    /\ sub.conf.dst = Unset \/ sub.conf.dst = h.dst

MatchesGocbRef(sub, ref) == sub.conf.ref = Unset \/ sub.conf.ref = ref

Accepts(filter, simulated) ==
    CASE filter = "any" -> TRUE
      [] filter = "nonSimulated" -> ~simulated
      [] filter = "simulated" -> simulated

\* The stream a state belongs to.
Key(p) == << Config[p].ref, Config[p].sim >>

IsWrapToOne(prev, new) == prev = NumMax /\ new = 1

StNumRollback(prev, f) == f.st < prev.st /\ ~IsWrapToOne(prev.st, f.st)

SqNumRollback(prev, f) ==
    /\ ~StNumRollback(prev, f)
    /\ f.st = prev.st /\ f.sq <= prev.sq /\ ~IsWrapToOne(prev.sq, f.sq)

\* What the listener is told of a frame, given the stream's previous state.
Track(prev, f) ==
    LET known == prev # Unset
        back  == known /\ (StNumRollback(prev, f) \/ SqNumRollback(prev, f))
        new   == ~known \/ StNumRollback(prev, f) \/ IsWrapToOne(prev.st, f.st) \/ f.st > prev.st
    IN  [st |-> f.st, sq |-> f.sq, ttl |-> f.ttl, confRev |-> f.confRev, datSet |-> f.datSet, age |-> 0,
         valid |-> ~back, kind |-> IF new THEN "newState" ELSE "retransmission",
         ok |-> ~(known /\ prev.confRev # 0 /\ f.confRev # prev.confRev),
         \* a repeated frame does not count as a sign of life
         expired |-> known /\ SqNumRollback(prev, f) /\ prev.expired,
         early |-> FALSE, from |-> f.from,
         prev |-> IF known THEN [from |-> prev.from, datSet |-> prev.datSet] ELSE Unset]

EvictLeastRecent(sub, key) ==
    IF key \in DOMAIN sub.streams \/ Len(sub.order) < Most(sub.conf.max, 1) THEN sub
    ELSE [sub EXCEPT !.streams = [k \in DOMAIN @ \ {sub.order[1]} |-> @[k]], !.order = Tail(@)]

UpdateAndDispatch(sub, key, f) ==
    LET room == EvictLeastRecent(sub, key)
        prev == IF key \in DOMAIN sub.streams THEN sub.streams[key] ELSE Unset
    IN  [room EXCEPT !.streams = [k \in DOMAIN @ \union {key} |-> IF k = key THEN Track(prev, f) ELSE @[k]],
                     !.order   = SelectSeq(@, LAMBDA k : k # key) \o << key >>]

PublisherOf(key) == CHOOSE p \in Publishers : Key(p) = key

CheckExpired(sub) ==
    [sub EXCEPT !.streams = [k \in DOMAIN @ |->
        IF @[k].expired \/ @[k].age <= @[k].ttl THEN @[k]
        ELSE [@[k] EXCEPT !.expired = TRUE, !.early = ~(ggap[PublisherOf(k)] \/ gidle[PublisherOf(k)])]]]

CheckAllExpired(subs) == [i \in DOMAIN subs |-> IF subs[i] = Unset THEN Unset ELSE CheckExpired(subs[i])]

-----------------------------------------------------------------------------
(* The receiver.                                                             *)

AppIds == {Config[p].comm.app : p \in Publishers}

EmptyIndex == [app |-> [a \in AppIds |-> << >>], wild |-> << >>]

AddSubscriber(r, conf) ==
    LET i == Len(r.subs) + 1
    IN  [subs |-> Append(r.subs, NewSubscriber(conf)),
         index |-> IF conf.app = Unset THEN [r.index EXCEPT !.wild = Append(@, i)]
                   ELSE [r.index EXCEPT !.app[conf.app] = Append(@, i)]]

RemoveSubscriber(r, i) ==
    LET without(s) == SelectSeq(s, LAMBDA j : j # i)
        app == r.subs[i].conf.app
    IN  [subs |-> [r.subs EXCEPT ![i] = Unset],
         index |-> IF app = Unset THEN [r.index EXCEPT !.wild = without(@)]
                   ELSE [r.index EXCEPT !.app[app] = without(@)]]

Candidates(app) == Range((IF app \in AppIds THEN gindex.app[app] ELSE << >>) \o gindex.wild)

\* do_handle_message(): nothing is decoded that no subscriber waits for.
Dispatch(h, key, f) ==
    LET matching == {i \in Candidates(h.app) : gsubs[i] # Unset /\ MatchesFrame(gsubs[i], h)}
    IN  [i \in DOMAIN gsubs |->
            IF /\ i \in matching
               /\ MatchesGocbRef(gsubs[i], key[1]) /\ Accepts(gsubs[i].conf.sim, key[2])
            THEN UpdateAndDispatch(gsubs[i], key, f) ELSE gsubs[i]]

-----------------------------------------------------------------------------

\* The states of a publisher that has been running for a while are those near
\* the end of its numbers.
NewPublisher(p, st) ==
    [st |-> st, sq |-> 0, phase |-> 1, due |-> 0, enabled |-> FALSE, driver |-> "app",
     datSet |-> CHOOSE d \in DataSets : TRUE, confRev |-> st, boot |-> 1, state |-> 1]

WithSubscribers(confs) == FoldLeft(AddSubscriber, [subs |-> << >>, index |-> EmptyIndex], confs)

GbInit ==
    /\ gleft \in GbScenarios
    /\ gpub \in {f \in [Publishers -> {NewPublisher(p, st) : p \in Publishers, st \in {1, NumMax}}] :
                    \A p \in Publishers \ gleft.pubs : f[p].st = 1}
    /\ gnet = [p \in Publishers |-> << >>]
    /\ gsubs = WithSubscribers(gleft.subs).subs
    /\ gindex = WithSubscribers(gleft.subs).index
    /\ grun = "running"
    /\ ggap = [p \in Publishers |-> FALSE]
    /\ gidle = [p \in Publishers |-> FALSE]

Spend(what) == gleft[what] > 0 /\ gleft' = [gleft EXCEPT ![what] = @ - 1]

Publishing(p) == gpub[p].driver = "loop" \/ (gpub[p].driver = "app" /\ gpub[p].enabled)

\* What this state of a publisher puts on the wire.
PublishedFrame(p) ==
    LET q == gpub[p]
    IN  EncodeGooseFrame(Config[p].comm, Config[p].sim,
            [key |-> Key(p), st |-> q.st, sq |-> q.sq, ttl |-> TimeAllowedToLive(p), confRev |-> q.confRev,
             datSet |-> q.datSet,
             from |-> [boot |-> q.boot, state |-> q.state, dup |-> FALSE, gap |-> FALSE]],
            PduSize) @@ [transit |-> 0]

\* The application's or the loop's publication, when it is due.
Publish(p) ==
    /\ p \in gleft.pubs /\ Publishing(p) /\ gpub[p].due = 0
    /\ PublishedFrame(p).octets <= FrameMax
    /\ gnet' = [gnet EXCEPT ![p] = Append(@, PublishedFrame(p))]
    /\ gpub' = [gpub EXCEPT ![p].sq = Successor(@), ![p].due = Interval(p), ![p].phase = Advance(@)]
    /\ UNCHANGED << gsubs, gindex, grun, ggap, gidle, gleft >>

\* Values that do not fit a frame: nothing is counted, and the loop ends.
PublishOversize(p) ==
    /\ p \in gleft.pubs /\ gpub[p].driver = "loop" /\ gpub[p].due = 0
    /\ Spend("admin")
    /\ gpub' = [gpub EXCEPT ![p].driver = "gone"]
    /\ gidle' = [gidle EXCEPT ![p] = TRUE]
    /\ UNCHANGED << gnet, gsubs, gindex, grun, ggap >>

StateChange(p, st, boot) ==
    gpub' = [gpub EXCEPT ![p].st = st, ![p].sq = 0, ![p].phase = 1, ![p].due = 0,
                         ![p].boot = boot, ![p].state = @ + 1]

IncreaseStNumKept(p) ==
    /\ p \in gleft.pubs /\ gpub[p].driver = "app"
    /\ Spend("change")
    /\ StateChange(p, gpub[p].st, gpub[p].boot)
    /\ UNCHANGED << gnet, gsubs, gindex, grun, ggap, gidle >>


IncreaseStNum(p) ==
    /\ p \in gleft.pubs /\ gpub[p].driver = "app"
    /\ Spend("change")
    /\ StateChange(p, Successor(gpub[p].st), gpub[p].boot)
    /\ UNCHANGED << gnet, gsubs, gindex, grun, ggap, gidle >>

Reset(p) ==
    /\ p \in gleft.pubs /\ gpub[p].driver = "app"
    /\ Spend("change")
    /\ StateChange(p, 1, gpub[p].boot + 1)
    /\ UNCHANGED << gnet, gsubs, gindex, grun, ggap, gidle >>

\* The loop owns the publisher until it is cancelled.
StartLoop(p) ==
    /\ p \in gleft.pubs /\ gpub[p].driver = "app" /\ ~Config[p].addressed
    /\ gpub' = [gpub EXCEPT ![p].driver = "loop"]
    /\ UNCHANGED << gnet, gsubs, gindex, grun, ggap, gidle, gleft >>

CancelLoop(p) ==
    /\ gpub[p].driver = "loop"
    /\ Spend("admin")
    /\ gpub' = [gpub EXCEPT ![p].driver = "app"]
    /\ gidle' = [gidle EXCEPT ![p] = TRUE]
    /\ UNCHANGED << gnet, gsubs, gindex, grun, ggap >>

\* Clients write the control block's components.
WriteGoEna(p, on) ==
    /\ p \in gleft.pubs /\ gpub[p].driver = "app" /\ gpub[p].enabled # on
    /\ on => Config[p].addressed /\ gpub[p].datSet # Unset /\ gpub[p].confRev # 0
    /\ Spend("write")
    /\ gpub' = [gpub EXCEPT ![p].enabled = on]
    /\ gidle' = [gidle EXCEPT ![p] = @ \/ ~on]
    /\ UNCHANGED << gnet, gsubs, gindex, grun, ggap >>

WriteDatSet(p, d) ==
    /\ p \in gleft.pubs /\ gpub[p].driver = "app" /\ Config[p].addressed
    /\ ~Config[p].ed21 /\ ~gpub[p].enabled
    /\ Spend("write")
    /\ gpub' = [gpub EXCEPT ![p].datSet = d, ![p].confRev = Successor(@)]
    /\ UNCHANGED << gnet, gsubs, gindex, grun, ggap, gidle >>

-----------------------------------------------------------------------------
(* The network and the receiver.                                             *)

Lose(p) ==
    /\ gnet[p] # << >> /\ Spend("loss")
    /\ gnet' = [gnet EXCEPT ![p] = Tail(@)]
    /\ ggap' = [ggap EXCEPT ![p] = TRUE]
    /\ UNCHANGED << gpub, gsubs, gindex, grun, gidle >>

\* Nobody reads the interface.
Missed(p) ==
    /\ gnet[p] # << >> /\ grun \in {"idle", "gone"}
    /\ gnet' = [gnet EXCEPT ![p] = Tail(@)]
    /\ ggap' = [ggap EXCEPT ![p] = TRUE]
    /\ UNCHANGED << gpub, gsubs, gindex, grun, gidle, gleft >>

Reading == grun \in {"running", "thread", "stopping"}

\* The thread looks at its flag before every frame.
AfterIteration == IF grun = "stopping" THEN "gone" ELSE grun

\* handle_message_at() with a frame of which this many octets arrive; again
\* when the network delivers the frame once more.
Deliver(p, octets, again) ==
    LET f == [Head(gnet[p]) EXCEPT !.octets = octets]
        h == DecodeGooseFrame(f)
        seen == [f.pdu EXCEPT !.from.gap = ggap[p]]
    IN  /\ Reading
        /\ gsubs' = CheckAllExpired(IF h = BadFrame \/ h.pdu = BadFrame THEN gsubs
                                    ELSE Dispatch(h, f.pdu.key, seen))
        /\ gnet' = [gnet EXCEPT ![p] = IF again THEN << [Head(@) EXCEPT !.pdu.from.dup = TRUE] >> \o Tail(@)
                                       ELSE Tail(@)]
        /\ ggap' = [ggap EXCEPT ![p] = h = BadFrame]
        /\ gidle' = [gidle EXCEPT ![p] = (h = BadFrame /\ @) \/ ~Publishing(p)]
        /\ grun' = AfterIteration
        /\ UNCHANGED << gpub, gindex >>

DeliverFrame(p) ==
    /\ gnet[p] # << >>
    /\ \/ Deliver(p, Head(gnet[p]).octets, FALSE) /\ UNCHANGED gleft
       \/ Deliver(p, Head(gnet[p]).octets + 60, FALSE) /\ UNCHANGED gleft
       \/ Deliver(p, Head(gnet[p]).octets - 1, FALSE) /\ Spend("loss")
       \/ Deliver(p, Head(gnet[p]).octets, TRUE) /\ ~Head(gnet[p]).pdu.from.dup /\ Spend("dup")

ReceiverTickIdle ==
    /\ Reading
    /\ grun' = AfterIteration
    /\ UNCHANGED << gpub, gnet, gsubs, gindex, ggap, gidle, gleft >>

\* tick_at(None): the wait for a frame has timed out.
ReceiverTick ==
    /\ Reading
    /\ gsubs' = CheckAllExpired(gsubs)
    /\ grun' = AfterIteration
    /\ UNCHANGED << gpub, gnet, gindex, ggap, gidle, gleft >>

ReceiverAdd(conf) ==
    /\ grun = "idle" /\ Spend("admin")
    /\ LET r == AddSubscriber([subs |-> gsubs, index |-> gindex], conf)
       IN  gsubs' = r.subs /\ gindex' = r.index
    /\ UNCHANGED << gpub, gnet, grun, ggap, gidle >>

ReceiverRemove(i) ==
    /\ grun = "idle" /\ gsubs[i] # Unset /\ Spend("admin")
    /\ LET r == RemoveSubscriber([subs |-> gsubs, index |-> gindex], i)
       IN  gsubs' = r.subs /\ gindex' = r.index
    /\ UNCHANGED << gpub, gnet, grun, ggap, gidle >>

\* start(), stop(), start_thread() and stop_and_join(): the thread takes the
\* receiver with it.
ReceiverRun ==
    /\ \/ grun = "idle" /\ grun' \in {"running", "thread"} /\ UNCHANGED gleft
       \/ grun = "running" /\ grun' = "idle" /\ Spend("admin")
       \/ grun = "thread" /\ grun' = "stopping" /\ Spend("admin")
    /\ UNCHANGED << gpub, gnet, gsubs, gindex, ggap, gidle >>

GbTick ==
    /\ \A p \in gleft.pubs : ~(Publishing(p) /\ gpub[p].due = 0)
    /\ \A p \in Publishers : \A i \in DOMAIN gnet[p] : gnet[p][i].transit < MaxTransit
    /\ IF gleft.tick = Unset THEN UNCHANGED gleft ELSE Spend("tick")
    /\ gpub' = [p \in Publishers |-> [gpub[p] EXCEPT !.due = Most(@, 1) - 1]]
    /\ gnet' = [p \in Publishers |-> [i \in DOMAIN gnet[p] |-> [gnet[p][i] EXCEPT !.transit = @ + 1]]]
    /\ gsubs' = [i \in DOMAIN gsubs |->
                    IF gsubs[i] = Unset THEN Unset
                    ELSE [gsubs[i] EXCEPT !.streams = [k \in DOMAIN @ |->
                             [@[k] EXCEPT !.age = Least(@ + 1, gsubs[i].streams[k].ttl + 1)]]]]
    /\ UNCHANGED << gindex, grun, ggap, gidle >>

GbPublish == \E p \in Publishers : Publish(p)
GbApplication == \E p \in Publishers : \/ IncreaseStNum(p) \/ Reset(p) \/ StartLoop(p) \/ CancelLoop(p)
                                       \/ PublishOversize(p)
GbClient == \E p \in Publishers : \/ \E on \in BOOLEAN : WriteGoEna(p, on)
                                  \/ \E d \in DataSets : WriteDatSet(p, d)
GbNetwork == \E p \in Publishers : Lose(p) \/ Missed(p) \/ DeliverFrame(p)
GbReceiver == \/ ReceiverTick \/ ReceiverRun
              \/ \E c \in SubscriberConfs : ReceiverAdd(c)
              \/ \E i \in DOMAIN gsubs : ReceiverRemove(i)

GbNext == GbPublish \/ GbApplication \/ GbClient \/ GbNetwork \/ GbReceiver \/ GbTick

GbFairness ==
    /\ WF_gbVars(GbTick) /\ WF_gbVars(ReceiverTick)
    /\ \A p \in Publishers : WF_gbVars(Publish(p)) /\ SF_gbVars(DeliverFrame(p)) /\ WF_gbVars(Missed(p))

GbSpec == GbInit /\ [][GbNext]_gbVars /\ GbFairness

-----------------------------------------------------------------------------
(* Properties.                                                               *)

Present == {i \in DOMAIN gsubs : gsubs[i] # Unset}

Streams == {<< i, k >> \in Present \X {Key(p) : p \in Publishers} : k \in DOMAIN gsubs[i].streams}

Stream(x) == gsubs[x[1]].streams[x[2]]

\* The streams a subscriber already followed when the last frame came in,
\* from a publisher that was not reset in between.
Followed == {x \in Streams : Stream(x).prev # Unset /\ Stream(x).prev.from.boot = Stream(x).from.boot}

\* The listener hears NewState for the first frame of a state and for no other
\* frame of it, whatever was lost or repeated, and across the wrap of stNum.  A
\* frame the network repeats never counts as a valid state of the stream, and
\* one that is neither repeated nor follows a lost one always does
\* (update_and_dispatch()): the rollback rules let numbers wrap.
StateAnnouncedOnce ==
    \A x \in Followed :
        /\ (Stream(x).kind = "newState") <=> (Stream(x).from.state # Stream(x).prev.from.state)
        /\ Stream(x).from.dup => ~Stream(x).valid
        /\ ~Stream(x).from.dup /\ ~Stream(x).from.gap => Stream(x).valid

\* The scenario lets time go on.
TimeRuns == gleft.tick = Unset

NoFalseExpiry == \A x \in Streams : ~Stream(x).early

\* A stream expires if and only if its publisher falls silent.  While the
\* publisher publishes and nothing is lost it does not: timeAllowedToLive of
\* every frame covers the time to the next one, in every phase of the
\* retransmission and at every change of phase.  A publisher that stops is
\* noticed by every subscriber that follows it while the receiver runs: the
\* timeouts of the receive loop see to it.
SilenceDetected ==
    /\ []NoFalseExpiry
    /\ \A p \in Publishers :
        <>[](TimeRuns /\ ~Publishing(p) /\ gnet[p] = << >> /\ Reading)
            => <>[](\A i \in Present : Key(p) \in DOMAIN gsubs[i].streams =>
                       gsubs[i].streams[Key(p)].expired /\ gsubs[i].streams[Key(p)].age > gsubs[i].streams[Key(p)].ttl)
=============================================================================
