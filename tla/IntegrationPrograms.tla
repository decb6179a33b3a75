-------------------------- MODULE IntegrationPrograms --------------------------
(***************************************************************************)
(* The C programs of integration-tests/c, step by step.  Each scenario has  *)
(* its endpoints, one sequence of steps per process, put together from the  *)
(* phases of its main, and the order in which the harness starts them.      *)
(*                                                                         *)
(* Timeouts, delays and lease durations are the programs' own.  Numbers of  *)
(* samples are scaled down, one or two stand for five; the liveliness       *)
(* programs, where the number of writes is a duration, keep theirs.         *)
(***************************************************************************)
EXTENDS ProgramSteps

LOCAL Samples == 2

\* The harness's pause between the two programs of a scenario.
LOCAL AfterASecond == <<Sleep(Seconds(1))>>
LOCAL Numbers(n) == [i \in 1..n |-> i - 1]

-------------------------------------------------------------------------------
\* wait-for-historical-data
HistoricalEnds ==
  [dw |-> Durable(WriterOf("publisher", "HistoryEvent")),
   dr |-> Durable(ReaderOf("subscriber", "HistoryEvent"))]

HistoricalBatch == <<Join, Create("dw")>> \o WriteAll("dw", 0, 1)
HistoricalNoMatch == <<Check({Unmatched("dw")})>>
HistoricalMatch == <<Await({Met("dw")}, Seconds(20))>>
HistoricalLive == WriteAll("dw", 2, 3)
HistoricalGone == {Departed("dw")}
HistoricalDrain == <<Await(HistoricalGone, Seconds(15)), Leave>>
HistoricalPublisher ==
  HistoricalBatch \o HistoricalNoMatch \o HistoricalMatch \o HistoricalLive \o HistoricalDrain

HistoricalSetup == <<Join, Create("dr")>>
HistoricalNegative == <<Refuse({Historical("dr")}, 1), Say("ready for publisher")>>
HistoricalWait == <<Await({Historical("dr")}, Seconds(15))>>
HistoricalConfirm == <<Take("dr"), Check({TookAtLeast("dr", {0, 1})}), Listen("dr")>>
HistoricalAll == {TookAtLeast("dr", {2, 3})}
HistoricalFinish == <<Await(HistoricalAll, Seconds(30)), Delete("dr"), Leave>>
HistoricalSubscriber ==
  HistoricalSetup \o HistoricalNegative \o HistoricalWait \o HistoricalConfirm \o HistoricalFinish

-------------------------------------------------------------------------------
\* sample-rejected-lost
RejectedEnds ==
  [lost_dw |-> Durable(KeepLast(WriterOf("publisher", "LostTopic"), 1)),
   rejected_dw |-> WriterOf("publisher", "RejectedTopic"),
   sync_dw |-> WriterOf("publisher", "SyncTopic"),
   rejected_dr |-> [ReaderOf("subscriber", "RejectedTopic") EXCEPT !.limit = 3],
   sync_dr |-> ReaderOf("subscriber", "SyncTopic"),
   lost_dr |-> Durable(KeepLast(ReaderOf("subscriber", "LostTopic"), 1))]

RejectedLostFirst == <<Join, Create("lost_dw")>> \o WriteAll("lost_dw", 0, 1)
RejectedWriters == <<Create("rejected_dw"), Create("sync_dw")>>
RejectedReady == <<Await({Ready("rejected_dw"), Ready("sync_dw")}, Seconds(10))>>
RejectedBurst == WriteAll("rejected_dw", 0, 4)
RejectedSync == <<Write("sync_dw", 0)>>
RejectedGone == {Departed("rejected_dw"), Departed("sync_dw"), Departed("lost_dw")}
RejectedDrain ==
  <<Await(RejectedGone, Seconds(15))>> \o DeleteAll(<<"rejected_dw", "lost_dw", "sync_dw">>)
    \o <<Leave>>
RejectedPublisher ==
  AfterASecond \o RejectedLostFirst \o RejectedWriters \o RejectedReady \o RejectedBurst
    \o RejectedSync \o RejectedDrain

RejectedSetup == <<Join, Create("rejected_dr"), Create("sync_dr")>>
RejectedGate == <<Collect({"sync_dr"}, {Took("sync_dr", 1)}, Seconds(20))>>
RejectedLostReader == <<Create("lost_dr")>>
RejectedStatus ==
  <<Await({SomeRejected("rejected_dr")}, Seconds(20)), Take("rejected_dr"),
    Check({Conserved("rejected_dr", 5), Took("rejected_dr", 1)})>>
RejectedLostStatus ==
  <<Await({SomeLost("lost_dr")}, Seconds(20)),
    Collect({"lost_dr"}, {TookAtLeast("lost_dr", {1})}, Seconds(20)), Leave>>
RejectedSubscriber ==
  RejectedSetup \o RejectedGate \o RejectedLostReader \o RejectedStatus \o RejectedLostStatus

-------------------------------------------------------------------------------
\* ignore-entities
IgnoreEnds ==
  [topic_ignored_dr |-> ReaderOf("ignorer", "TopicIgnoredTopic"),
   participant_ignored_dr |-> ReaderOf("ignorer", "ParticipantIgnoredTopic"),
   control_dr |-> ReaderOf("ignorer", "ControlTopic"),
   probe_dr |-> ReaderOf("ignorer", "PublicationIgnoredTopic"),
   pub_ignored_dr |-> ReaderOf("ignorer", "PublicationIgnoredTopic"),
   probe_dw |-> WriterOf("ignorer", "SubscriptionIgnoredTopic"),
   sub_ignored_dw |-> WriterOf("ignorer", "SubscriptionIgnoredTopic"),
   dw |-> WriterOf("bystander", "ParticipantIgnoredTopic"),
   control_dw |-> WriterOf("peer", "ControlTopic"),
   topic_ignored_dw |-> WriterOf("peer", "TopicIgnoredTopic"),
   pub_ignored_dw |-> WriterOf("peer", "PublicationIgnoredTopic"),
   sub_ignored_dr |-> ReaderOf("peer", "SubscriptionIgnoredTopic")]

IgnorerSetup ==
  <<Join, IgnoreTopic("TopicIgnoredTopic"), Create("topic_ignored_dr"),
    Create("participant_ignored_dr"), Create("control_dr"), Say("ready for bystander")>>
IgnorerParticipant ==
  <<Await({SeesPeer("ignorer")}, Seconds(15)), IgnorePeer, Say("participant ignored")>>
IgnorerPublication ==
  <<Create("probe_dr"), Await({Matched("probe_dr", 1)}, Seconds(45)), IgnoreMatch("probe_dr"),
    Delete("probe_dr"), Create("pub_ignored_dr")>>
IgnorerSubscription ==
  <<Create("probe_dw"), Await({Matched("probe_dw", 1)}, Seconds(45)), IgnoreMatch("probe_dw"),
    Delete("probe_dw"), Create("sub_ignored_dw"),
    Write("sub_ignored_dw", 0)>>
IgnorerUnmatched ==
  <<Sleep(Seconds(3)),
    Check({Unmatched("topic_ignored_dr"), Unmatched("participant_ignored_dr"),
           Unmatched("pub_ignored_dr")})>>
IgnorerNoData ==
  <<Take("topic_ignored_dr"), Take("pub_ignored_dr"),
    Check({TookExactly("topic_ignored_dr", <<>>), TookExactly("pub_ignored_dr", <<>>)})>>
IgnorerControl ==
  <<Await({Matched("control_dr", 1)}, Seconds(20)),
    Collect({"control_dr"}, {Took("control_dr", Samples)}, Seconds(20)),
    Check({TookExactly("control_dr", Numbers(Samples))}), Leave>>
Ignorer ==
  IgnorerSetup \o IgnorerParticipant \o IgnorerPublication \o IgnorerSubscription
    \o IgnorerUnmatched \o IgnorerNoData \o IgnorerControl

Bystander ==
  <<Join, Sleep(Seconds(22)), Create("dw"), Write("dw", 0), Sleep(Seconds(6)), Leave>>

IgnorePeerSetup ==
  <<Join, Create("control_dw"), Create("topic_ignored_dw"), Create("pub_ignored_dw"),
    Create("sub_ignored_dr")>>
IgnorePeerWrites ==
  <<Write("topic_ignored_dw", 0), Write("pub_ignored_dw", 0)>>
IgnorePeerNoData ==
  <<Sleep(Seconds(20)), Take("sub_ignored_dr"), Check({TookExactly("sub_ignored_dr", <<>>)})>>
IgnorePeerControl ==
  <<Await({Matched("control_dw", 1)}, Seconds(20))>> \o WriteAll("control_dw", 0, 1)
IgnorePeerDrain == <<Await({Unmatched("control_dw")}, Seconds(15)), Leave>>
Peer ==
  IgnorePeerSetup \o IgnorePeerWrites \o IgnorePeerNoData \o IgnorePeerControl \o IgnorePeerDrain

-------------------------------------------------------------------------------
\* cft-reconfigure: seq >= 1000 refuses everything, seq >= 1 the value 0 only.
CftEnds ==
  [dw |-> WriterOf("publisher", "CftEvent"),
   go_dr |-> ReaderOf("publisher", "GoTopic"),
   witness_dr |-> ReaderOf("subscriber", "CftEvent"),
   filtered_dr |-> ReaderOf("subscriber", "CftEvent"),
   go_dw |-> WriterOf("subscriber", "GoTopic")]

CftPublisherSetup == <<Join, Create("dw"), Create("go_dr")>>
CftMatch == <<Await({Matched("dw", 2)}, Seconds(40))>>
CftPhase1 == WriteAll("dw", 0, 1)
CftGo == <<Collect({"go_dr"}, {Took("go_dr", 1)}, Seconds(20))>>
CftPhase2 == WriteAll("dw", 2, 3)
CftGone == {Unmatched("dw")}
CftDrain == <<Await(CftGone, Seconds(15)), Leave>>
CftPublisher == CftPublisherSetup \o CftMatch \o CftPhase1 \o CftGo \o CftPhase2 \o CftDrain

CftSubscriberSetup ==
  <<Join, Create("witness_dr"), Filter("filtered_dr", 0..3), Create("filtered_dr"),
    Create("go_dw"), Listen("witness_dr"), Listen("filtered_dr")>>
CftWitness1 == <<Await({Took("witness_dr", 2)}, Seconds(45))>>
CftNoneYet == <<Sleep(Seconds(3)), Check({TookExactly("filtered_dr", <<>>)})>>
CftReconfigure == <<Filter("filtered_dr", {0}), Write("go_dw", 0)>>
CftWitness2 ==
  <<Await({Took("witness_dr", 4)}, Seconds(20)), Await({Took("filtered_dr", 2)}, Seconds(20))>>
CftExact == <<Check({TookExactly("filtered_dr", <<2, 3>>)}), Leave>>
CftSubscriber ==
  CftSubscriberSetup \o CftWitness1 \o CftNoneYet \o CftReconfigure \o CftWitness2 \o CftExact

-------------------------------------------------------------------------------
\* coherent-sets
CoherentEnds ==
  [position_dw |-> Grouped(WriterOf("publisher", "Position")),
   velocity_dw |-> Grouped(WriterOf("publisher", "Velocity")),
   position_dr |-> Grouped(ReaderOf("subscriber", "Position")),
   velocity_dr |-> Grouped(ReaderOf("subscriber", "Velocity"))]

CoherentPublisherSetup == <<Join, Create("position_dw"), Create("velocity_dw")>>
CoherentReady == <<Await({Ready("position_dw"), Ready("velocity_dw")}, Seconds(10))>>
CoherentGroup(g) ==
  <<Write("position_dw", g), Write("velocity_dw", g), EndSet({"position_dw", "velocity_dw"})>>
CoherentGone == {Departed("position_dw"), Departed("velocity_dw")}
CoherentDrain ==
  <<Await(CoherentGone, Seconds(15)), Delete("position_dw"), Delete("velocity_dw"), Leave>>
CoherentPublisher ==
  AfterASecond \o CoherentPublisherSetup \o CoherentReady \o CoherentGroup(0) \o CoherentGroup(1)
    \o CoherentDrain

CoherentSubscriberSetup == <<Join, Create("position_dr"), Create("velocity_dr")>>
CoherentAccess ==
  <<Collect({"position_dr", "velocity_dr"},
            {Took("position_dr", Samples), Took("velocity_dr", Samples)}, Seconds(30))>>
CoherentOrder ==
  <<Check({TookExactly("position_dr", Numbers(Samples)),
           TookExactly("velocity_dr", Numbers(Samples))})>>
CoherentTeardown == <<Delete("position_dr"), Delete("velocity_dr"), Leave>>
CoherentSubscriber ==
  CoherentSubscriberSetup \o CoherentAccess \o CoherentOrder \o CoherentTeardown

-------------------------------------------------------------------------------
\* delete-contained-entities
ContainedEnds ==
  [out1_dw |-> WriterOf("session", "SessionOut1"),
   out2_dw |-> WriterOf("session", "SessionOut2"),
   in_dr |-> ReaderOf("session", "SessionIn"),
   cft_dr |-> ReaderOf("session", "SessionIn"),
   in_dw |-> WriterOf("peer", "SessionIn"),
   out1_dr |-> ReaderOf("peer", "SessionOut1"),
   out2_dr |-> ReaderOf("peer", "SessionOut2")]

SessionSetup ==
  <<Join>> \o CreateAll(<<"out1_dw", "out2_dw", "in_dr", "cft_dr">>)
SessionReady ==
  <<Await({Ready("out1_dw"), Ready("out2_dw")}, Seconds(10)),
    Await({Met("in_dr"), Met("cft_dr")}, Seconds(10))>>
SessionWrites ==
  <<Write("out1_dw", 0), Write("out2_dw", 0)>>
SessionReceives == <<Collect({"in_dr"}, {Took("in_dr", 1)}, Seconds(20))>>
SessionTeardown ==
  <<Say("deleting")>> \o DeleteAll(<<"out1_dw", "out2_dw", "in_dr", "cft_dr">>) \o <<Leave>>
Session ==
  AfterASecond \o SessionSetup \o SessionReady \o SessionWrites \o SessionReceives
    \o SessionTeardown

ContainedPeerSetup == <<Join, Create("in_dw"), Create("out1_dr"), Create("out2_dr")>>
ContainedPeerReady == <<Await({Ready("in_dw")}, Seconds(10))>>
ContainedPeerWrites == <<Write("in_dw", 0)>>
ContainedPeerReceives ==
  <<Collect({"out1_dr", "out2_dr"}, {Took("out1_dr", 1), Took("out2_dr", 1)}, Seconds(20))>>
\* Not waiting for the session to be gone (a mutant of ContainedGone).
ContainedNotAwaited == {}
ContainedGone == {Departed("in_dw"), Departed("out1_dr"), Departed("out2_dr")}
ContainedPeerGone == <<Await(ContainedGone, Seconds(30)), Leave>>
ContainedPeer ==
  ContainedPeerSetup \o ContainedPeerReady \o ContainedPeerWrites \o ContainedPeerReceives
    \o ContainedPeerGone

-------------------------------------------------------------------------------
\* enable-defer
EnableEnds ==
  [dw |-> Deferred(WriterOf("configurer", "ConfigTopic")),
   dr |-> ReaderOf("peer", "ConfigTopic")]

ConfigurerSetup == <<Join, Create("dw")>>
ConfigurerProbe == <<Check({Disabled("dw")})>>
ConfigurerEnable == <<Sleep(Seconds(4)), Enable("dw")>>
ConfigurerReady == <<Await({Ready("dw")}, Seconds(20))>>
ConfigurerWrites == WriteAll("dw", 0, 1)
ConfigurerGone == {Departed("dw")}
ConfigurerDrain == <<Await(ConfigurerGone, Seconds(15)), Leave>>
Configurer ==
  AfterASecond \o ConfigurerSetup \o ConfigurerProbe \o ConfigurerEnable \o ConfigurerReady
    \o ConfigurerWrites \o ConfigurerDrain

EnablePeerSetup == <<Join, Create("dr")>>
EnablePeerQuiet == <<Refuse({Matched("dr", 1)}, Seconds(3))>>
EnablePeerMatch == <<Await({Matched("dr", 1)}, Seconds(30))>>
EnablePeerReceives ==
  <<Collect({"dr"}, {Took("dr", Samples)}, Seconds(20)),
    Check({TookExactly("dr", Numbers(Samples))})>>
EnablePeer == EnablePeerSetup \o EnablePeerQuiet \o EnablePeerMatch \o EnablePeerReceives \o <<Leave>>

-------------------------------------------------------------------------------
\* liveliness-lost
LivelinessEnds ==
  [auto_dw |-> Leased(WriterOf("publisher", "Automatic"), Seconds(2), FALSE),
   manual_dw |-> Leased(WriterOf("publisher", "ManualByParticipant"), Seconds(2), TRUE),
   auto_dr |-> Leased(ReaderOf("subscriber", "Automatic"), Seconds(2), FALSE),
   manual_dr |-> Leased(ReaderOf("subscriber", "ManualByParticipant"), Seconds(2), TRUE)]

LivelinessPublisherSetup == <<Join, Create("auto_dw"), Create("manual_dw")>>
LivelinessPublisherMatch == <<Await({Matched("auto_dw", 1), Matched("manual_dw", 1)}, Seconds(40))>>
LivelinessWrites ==
  [i \in 1..48 |-> IF i % 3 = 1 THEN Write("auto_dw", 0)
                   ELSE IF i % 3 = 2 THEN Write("manual_dw", 0)
                   ELSE Sleep(1)] \o <<Say("write loop done")>>
LivelinessWriterStatus == <<Check({NeverOffline("auto_dw"), Offline("manual_dw", 1)})>>
LivelinessGone == {Unmatched("auto_dw"), Unmatched("manual_dw")}
LivelinessDrain == <<Await(LivelinessGone, Seconds(15)), Leave>>
LivelinessPublisher ==
  LivelinessPublisherSetup \o LivelinessPublisherMatch \o LivelinessWrites
    \o LivelinessWriterStatus \o LivelinessDrain

LivelinessSubscriberSetup == <<Join, Create("auto_dr"), Create("manual_dr")>>
LivelinessSubscriberMatch == <<Await({Matched("auto_dr", 1), Matched("manual_dr", 1)}, Seconds(40))>>
LivelinessObserve == <<Sleep(Seconds(12)), Check({NeverOffline("auto_dr"), Offline("manual_dr", 1)}), Leave>>
LivelinessSubscriber ==
  LivelinessSubscriberSetup \o LivelinessSubscriberMatch \o LivelinessObserve

-------------------------------------------------------------------------------
\* source-timestamp: a sample carries the timestamp its writer gave it; the
\* disposal of the instance comes after the samples.
TimestampEnds ==
  [dw |-> WriterOf("publisher", "TimestampEvent"),
   dr |-> ReaderOf("subscriber", "TimestampEvent")]
LOCAL Stamped(seq) == [seq |-> seq, alive |-> TRUE, at |-> 1000000 + seq]
LOCAL Disposed     == [seq |-> 0, alive |-> FALSE, at |-> 2000000]

TimestampPublisherSetup == <<Join, Create("dw")>>
TimestampMatch == <<Await({Matched("dw", 1)}, Seconds(20))>>
TimestampWrites == <<Write("dw", Stamped(0)), Write("dw", Stamped(1))>>
TimestampDispose == <<Write("dw", Disposed)>>
TimestampDrain == <<Await({Unmatched("dw")}, Seconds(15)), Leave>>
TimestampPublisher ==
  TimestampPublisherSetup \o TimestampMatch \o TimestampWrites \o TimestampDispose \o TimestampDrain

TimestampSubscriberSetup == <<Join, Create("dr"), Listen("dr")>>
TimestampAll == {TookAtLeast("dr", {Stamped(0), Stamped(1), Disposed})}
TimestampReceives == <<Await(TimestampAll, Seconds(20)), Leave>>
TimestampSubscriber == TimestampSubscriberSetup \o TimestampReceives

-------------------------------------------------------------------------------
IntegrationEnds ==
  [historical |-> HistoricalEnds, rejected |-> RejectedEnds, ignore |-> IgnoreEnds,
   cft |-> CftEnds, coherent |-> CoherentEnds, contained |-> ContainedEnds,
   enable |-> EnableEnds, liveliness |-> LivelinessEnds, timestamp |-> TimestampEnds]

IntegrationCode ==
  [historical |-> [publisher |-> HistoricalPublisher, subscriber |-> HistoricalSubscriber],
   rejected   |-> [publisher |-> RejectedPublisher, subscriber |-> RejectedSubscriber],
   ignore     |-> [ignorer |-> Ignorer, bystander |-> Bystander, peer |-> Peer],
   cft        |-> [publisher |-> CftPublisher, subscriber |-> CftSubscriber],
   coherent   |-> [publisher |-> CoherentPublisher, subscriber |-> CoherentSubscriber],
   contained  |-> [session |-> Session, peer |-> ContainedPeer],
   enable     |-> [configurer |-> Configurer, peer |-> EnablePeer],
   liveliness |-> [publisher |-> LivelinessPublisher, subscriber |-> LivelinessSubscriber],
   timestamp  |-> [publisher |-> TimestampPublisher, subscriber |-> TimestampSubscriber]]

IntegrationStart ==
  LET together == [publisher |-> {}, subscriber |-> {}]
      subscriberFirst == [publisher |-> {Started("subscriber")}, subscriber |-> {}]
  IN
  [historical |-> [publisher |-> {Said("subscriber", "ready for publisher")}, subscriber |-> {}],
   rejected   |-> subscriberFirst,
   ignore     |-> [ignorer |-> {}, bystander |-> {Said("ignorer", "ready for bystander")},
                   peer |-> {Said("ignorer", "participant ignored")}],
   cft        |-> together,
   coherent   |-> subscriberFirst,
   contained  |-> [session |-> {Started("peer")}, peer |-> {}],
   enable     |-> [configurer |-> {Started("peer")}, peer |-> {}],
   liveliness |-> together,
   timestamp  |-> together]
===============================================================================
