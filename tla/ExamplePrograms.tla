---------------------------- MODULE ExamplePrograms ----------------------------
(***************************************************************************)
(* The C programs of examples/c, step by step, as IntegrationPrograms has   *)
(* those of integration-tests/c.  The smoke tests start the subscriber, and *)
(* the publisher a second later; in catchup it is the other way round.      *)
(*                                                                         *)
(* Two samples stand for the programs' three to ten; timeouts, delays and   *)
(* lease durations are their own.                                           *)
(***************************************************************************)
EXTENDS ProgramSteps

LOCAL AfterASecond == <<Sleep(Seconds(1))>>
LOCAL Two == <<0, 1>>

-------------------------------------------------------------------------------
\* hello_world: the listener is passed to create_datareader, and uses a typed
\* reader that is assigned after that call.
HelloEnds ==
  [dw |-> WriterOf("publisher", "HelloWorld"),
   dr |-> Listening(ReaderOf("subscriber", "HelloWorld"))]

HelloPublisherSetup == <<Join, Create("dw")>>
HelloReady == <<Await({Ready("dw")}, Seconds(10))>>
HelloWrites == WriteAll("dw", 0, 1)
HelloGone == {Departed("dw")}
\* Leaving without waiting (a mutant of HelloDrain).
HelloDrainAtOnce == <<Leave>>
HelloDrain == <<Await(HelloGone, Seconds(15)), Leave>>
\* Run by hand, the publisher need not be a second behind the subscriber.
HelloPublisherByHand == HelloPublisherSetup \o HelloReady \o HelloWrites \o HelloDrain
HelloPublisher == AfterASecond \o HelloPublisherByHand

HelloSubscriberSetup == <<Join, Create("dr"), Bind("dr")>>
HelloAll == {Took("dr", 2)}
HelloReceives == <<Await(HelloAll, Seconds(30)), Check({TookExactly("dr", Two)})>>
HelloTeardown == <<Delete("dr"), Leave>>
HelloSubscriber == HelloSubscriberSetup \o HelloReceives \o HelloTeardown

-------------------------------------------------------------------------------
\* discovery: both sides also look at whom they are matched with.
DiscoveryEnds ==
  [dw |-> WriterOf("publisher", "DiscoveryPing"),
   dr |-> ReaderOf("subscriber", "DiscoveryPing")]

DiscoveryPublisherTopic == <<Join>>
DiscoveryPublisherSetup == <<Create("dw")>>
DiscoveryReady == <<Await({Ready("dw")}, Seconds(10))>>
DiscoveryMatchedReader == <<Check({Matched("dw", 1)})>>
DiscoveryWrites == WriteAll("dw", 0, 1)
DiscoveryGone == {Departed("dw")}
DiscoveryDrain == <<Await(DiscoveryGone, Seconds(15)), Leave>>
DiscoveryPublisher ==
  AfterASecond \o DiscoveryPublisherTopic \o DiscoveryPublisherSetup \o DiscoveryReady
    \o DiscoveryMatchedReader \o DiscoveryWrites \o DiscoveryDrain

DiscoverySubscriberSetup == <<Join, Create("dr"), Bind("dr"), Listen("dr")>>
DiscoveryMatchedWriter == <<Await({Matched("dr", 1)}, Seconds(10))>>
DiscoveryAll == {Took("dr", 2)}
DiscoveryReceives ==
  <<Await(DiscoveryAll, Seconds(30)), Check({TookExactly("dr", Two)}), Delete("dr"), Leave>>
DiscoverySubscriber ==
  DiscoverySubscriberSetup \o DiscoveryMatchedWriter \o DiscoveryReceives

-------------------------------------------------------------------------------
\* presence: a MANUAL_BY_TOPIC writer falls silent and comes back.  Its beacons
\* keep it alive; two of them half a second apart stand for eight.
PresenceEnds ==
  [dw |-> Leased(KeepLast(WriterOf("publisher", "PresenceBeacon"), 1), Seconds(2), TRUE),
   dr |-> Listening(Leased(KeepLast(ReaderOf("subscriber", "PresenceBeacon"), 1), Seconds(2), TRUE))]

PresencePublisherSetup == <<Join, Create("dw")>>
PresenceReady == <<Await({Ready("dw")}, Seconds(10))>>
PresenceOnline == <<Write("dw", 0), Sleep(1), Write("dw", 1), Sleep(1)>>
PresenceOffline == <<Sleep(Seconds(5))>>
PresenceRecovery == <<AssertAlive("dw"), Write("dw", 2), Sleep(1), Write("dw", 3), Sleep(1)>>
PresenceGone == {Departed("dw")}
PresenceDrain == <<Await(PresenceGone, Seconds(15)), Leave>>
PresencePublisher ==
  AfterASecond \o PresencePublisherSetup \o PresenceReady \o PresenceOnline \o PresenceOffline
    \o PresenceRecovery \o PresenceDrain

PresenceSubscriberSetup == <<Join, Create("dr")>>
PresenceCycleComplete == {Recovered("dr")}
PresenceCycle == <<Await(PresenceCycleComplete, Seconds(30))>>
PresenceTeardown == <<Delete("dr"), Leave>>
PresenceSubscriber == PresenceSubscriberSetup \o PresenceCycle \o PresenceTeardown

-------------------------------------------------------------------------------
\* catchup: a late joiner gets the writer's history before the live samples.
CatchupEnds ==
  [dw |-> Durable(WriterOf("publisher", "HistoryEvent")),
   dr |-> Durable(ReaderOf("subscriber", "HistoryEvent"))]

CatchupPublisherSetup == <<Join, Create("dw")>>
CatchupHistorical == WriteAll("dw", 0, 1)
CatchupMatch == <<Await({Met("dw")}, Seconds(15))>>
CatchupLive == WriteAll("dw", 2, 3)
CatchupGone == {Departed("dw")}
CatchupDrain == <<Await(CatchupGone, Seconds(15)), Leave>>
CatchupPublisher ==
  CatchupPublisherSetup \o CatchupHistorical \o CatchupMatch \o CatchupLive \o CatchupDrain

CatchupSubscriberSetup == <<Join, Create("dr")>>
CatchupWait == <<Await({Historical("dr")}, Seconds(10))>>
CatchupConfirm == <<Take("dr"), Check({TookAtLeast("dr", {0, 1})})>>
CatchupListen == <<Listen("dr")>>
CatchupAll == {TookAtLeast("dr", {2, 3})}
CatchupReceives == <<Await(CatchupAll, Seconds(30)), Delete("dr"), Leave>>
CatchupSubscriber ==
  <<Sleep(Seconds(2))>> \o CatchupSubscriberSetup \o CatchupWait \o CatchupConfirm
    \o CatchupListen \o CatchupReceives

-------------------------------------------------------------------------------
\* registry: three instances, one disposed, one unregistered, one left alive.
RegistryEnds ==
  [dw |-> WriterOf("publisher", "SensorReading"),
   dr |-> ReaderOf("subscriber", "SensorReading")]
LOCAL AliveId(i) == [sensor_id |-> i, instance_state |-> "ALIVE"]
LOCAL GoneId(i, how) == [sensor_id |-> i, instance_state |-> how]

RegistryPublisherSetup == <<Join, Create("dw")>>
RegistryReady == <<Await({Ready("dw")}, Seconds(10))>>
RegistryInstanceA ==
  <<Write("dw", AliveId(1)), Write("dw", AliveId(1)), Write("dw", GoneId(1, "NOT_ALIVE_DISPOSED"))>>
RegistryInstanceB ==
  <<Write("dw", AliveId(2)), Write("dw", GoneId(2, "NOT_ALIVE_NO_WRITERS"))>>
RegistryInstanceC == <<Write("dw", AliveId(3))>>
RegistryGone == {Departed("dw")}
RegistryDrain == <<Await(RegistryGone, Seconds(15)), Leave>>
RegistryPublisher ==
  AfterASecond \o RegistryPublisherSetup \o RegistryReady \o RegistryInstanceA \o RegistryInstanceB
    \o RegistryInstanceC \o RegistryDrain

RegistrySubscriberSetup == <<Join, Create("dr"), Bind("dr"), Listen("dr")>>
RegistryAll ==
  {TookAtLeast("dr", {GoneId(1, "NOT_ALIVE_DISPOSED"), GoneId(2, "NOT_ALIVE_NO_WRITERS"), AliveId(3)})}
RegistryTracks ==
  {InTurn("dr", AliveId(1), GoneId(1, "NOT_ALIVE_DISPOSED")),
   InTurn("dr", AliveId(2), GoneId(2, "NOT_ALIVE_NO_WRITERS"))}
RegistryReceives == <<Await(RegistryAll, Seconds(30)), Check(RegistryTracks)>>
RegistryTeardown == <<Delete("dr"), Leave>>
RegistrySubscriber == RegistrySubscriberSetup \o RegistryReceives \o RegistryTeardown

-------------------------------------------------------------------------------
\* raw-loan: publishing a loan is a write, returning one unpublished is seen by
\* nobody; the subscriber's listener calls take_raw until it gets nothing.
RawLoanEnds ==
  [dw |-> WriterOf("publisher", "LoanedPing"),
   dr |-> TakingRaw(Listening(ReaderOf("subscriber", "LoanedPing")))]

RawLoanPublisherSetup == <<Join, Create("dw")>>
RawLoanReady == <<Await({Ready("dw")}, Seconds(10))>>
RawLoanPublish == WriteAll("dw", 0, 1)
RawLoanCancel == <<Say("loan cancelled")>>
RawLoanGone == {Departed("dw")}
RawLoanDrain == <<Await(RawLoanGone, Seconds(15)), Delete("dw"), Leave>>
RawLoanPublisher ==
  AfterASecond \o RawLoanPublisherSetup \o RawLoanReady \o RawLoanPublish \o RawLoanCancel
    \o RawLoanDrain

RawLoanSubscriberSetup == <<Join, Create("dr")>>
RawLoanAll == {Took("dr", 2)}
RawLoanReceives == <<Await(RawLoanAll, Seconds(30)), Check({TookExactly("dr", Two)})>>
RawLoanTeardown == <<Delete("dr"), Leave>>
RawLoanSubscriber == RawLoanSubscriberSetup \o RawLoanReceives \o RawLoanTeardown

-------------------------------------------------------------------------------
\* participant-config: as discovery, with a participant configured by a file or
\* by set_default_participant_config.
ConfigEnds ==
  [dw |-> WriterOf("publisher", "ConfigPing"),
   dr |-> ReaderOf("subscriber", "ConfigPing")]

ConfigPublisherParticipant == <<Join>>
ConfigPublisherSetup == <<Create("dw")>>
ConfigReady == <<Await({Ready("dw")}, Seconds(10))>>
ConfigWrites == WriteAll("dw", 0, 1)
ConfigGone == {Departed("dw")}
ConfigDrain == <<Await(ConfigGone, Seconds(15)), Leave>>
ConfigPublisher ==
  AfterASecond \o ConfigPublisherParticipant \o ConfigPublisherSetup \o ConfigReady
    \o ConfigWrites \o ConfigDrain

ConfigSubscriberParticipant == <<Join>>
ConfigSubscriberSetup == <<Create("dr"), Bind("dr"), Listen("dr")>>
ConfigAll == {Took("dr", 2)}
ConfigReceives ==
  <<Await(ConfigAll, Seconds(30)), Check({TookExactly("dr", Two)}), Delete("dr"), Leave>>
ConfigSubscriber == ConfigSubscriberParticipant \o ConfigSubscriberSetup \o ConfigReceives

-------------------------------------------------------------------------------
\* custom-allocator: BEST_EFFORT readers that keep the last sample; neither side
\* insists on a match, and each arms a guard against allocation once matched.
\* Half a second stands for the 200 ms between two samples.
AllocatorEnds ==
  [dw |-> WriterOf("publisher", "SensorTopic"),
   log_dw |-> WriterOf("publisher", "SensorLogTopic"),
   dr |-> BestEffort(KeepLast(ReaderOf("subscriber", "SensorTopic"), 1)),
   log_dr |-> BestEffort(KeepLast(ReaderOf("subscriber", "SensorLogTopic"), 1))]

AllocatorPublisherSetup == <<Join, Create("dw"), Create("log_dw")>>
\* One match is enough (a mutant of AllocatorWritersMatched).
AllocatorOneMatched == {Matched("dw", 1)}
AllocatorWritersMatched == {Matched("dw", 1), Matched("log_dw", 1)}
AllocatorPublisherArm == <<Arm(AllocatorWritersMatched, Seconds(10))>>
AllocatorSamples == <<Write("dw", 0), Sleep(1), Write("dw", 1), Sleep(1)>>
AllocatorLogs == <<Write("log_dw", 0), Sleep(1), Write("log_dw", 1), Sleep(1)>>
AllocatorSettle == <<Sleep(Seconds(1)), Disarm, Leave>>
AllocatorPublisher ==
  AfterASecond \o AllocatorPublisherSetup \o AllocatorPublisherArm \o AllocatorSamples
    \o AllocatorLogs \o AllocatorSettle

AllocatorSubscriberSetup == <<Join, Create("dr"), Create("log_dr")>>
AllocatorReadersMatched == {Matched("dr", 1), Matched("log_dr", 1)}
AllocatorSubscriberArm == <<Arm(AllocatorReadersMatched, Seconds(10))>>
AllocatorReceives == <<Try({"dr"}, {Took("dr", 2)}, Seconds(20))>>
AllocatorReceivesLogs == <<Try({"log_dr"}, {Took("log_dr", 2)}, Seconds(20))>>
AllocatorVerdict == <<Disarm, Leave, Check({Took("dr", 1), Took("log_dr", 1)})>>
AllocatorSubscriber ==
  AllocatorSubscriberSetup \o AllocatorSubscriberArm \o AllocatorReceives
    \o AllocatorReceivesLogs \o AllocatorVerdict

-------------------------------------------------------------------------------
\* waitset: one watchdog bounds all the waits of a program.
WaitSetEnds ==
  [dw |-> WriterOf("publisher", "WaitsetSample"),
   dr |-> ReaderOf("subscriber", "WaitsetSample")]

WaitSetPublisherSetup == <<Join, Create("dw")>>
WaitSetMatch == <<Await({Matched("dw", 1)}, Seconds(25))>>
WaitSetWrites == WriteAll("dw", 0, 1)
WaitSetDisconnect == <<Await({Unmatched("dw")}, Rest)>>
WaitSetPublisherTeardown == <<Delete("dw"), Leave>>
WaitSetPublisher ==
  AfterASecond \o WaitSetPublisherSetup \o WaitSetMatch \o WaitSetWrites \o WaitSetDisconnect
    \o WaitSetPublisherTeardown

WaitSetSubscriberSetup == <<Join, Create("dr")>>
WaitSetLoop == <<Collect({"dr"}, {Took("dr", 2)}, Seconds(30))>>
WaitSetSubscriberTeardown == <<Delete("dr"), Leave>>
WaitSetSubscriber == WaitSetSubscriberSetup \o WaitSetLoop \o WaitSetSubscriberTeardown

-------------------------------------------------------------------------------
\* shape -P and -S with a finite number of iterations and RELIABLE readers: the
\* publisher writes whether or not a reader has matched, gives up if none has in
\* ten seconds, disposes the instance and waits for the acknowledgements.
ShapeEnds ==
  [dw |-> WriterOf("publisher", "Square"), dr |-> ReaderOf("subscriber", "Square")]

ShapePublisherSetup == <<Join, Create("dw")>>
ShapeIterations == <<Write("dw", 0), Sleep(1), Write("dw", 1), Sleep(1)>>
ShapeFinalState == <<Write("dw", "disposed")>>
ShapeAcknowledged == <<Try({}, {Acked("dw")}, Seconds(5)), Leave>>
ShapePublisher ==
  AfterASecond \o ShapePublisherSetup \o ShapeIterations \o ShapeFinalState \o ShapeAcknowledged

ShapeSubscriberSetup == <<Join, Create("dr")>>
ShapeReadLoop == <<Try({"dr"}, {Took("dr", 4)}, Seconds(8)), Leave>>
ShapeSubscriber == ShapeSubscriberSetup \o ShapeReadLoop

-------------------------------------------------------------------------------
ExampleEnds ==
  [hello |-> HelloEnds, byhand |-> HelloEnds, discovery |-> DiscoveryEnds, presence |-> PresenceEnds,
   catchup |-> CatchupEnds, registry |-> RegistryEnds, rawloan |-> RawLoanEnds,
   config |-> ConfigEnds, allocator |-> AllocatorEnds, waitset |-> WaitSetEnds,
   shape |-> ShapeEnds]

ExampleCode ==
  [hello     |-> [publisher |-> HelloPublisher, subscriber |-> HelloSubscriber],
   byhand    |-> [publisher |-> HelloPublisherByHand, subscriber |-> HelloSubscriber],
   discovery |-> [publisher |-> DiscoveryPublisher, subscriber |-> DiscoverySubscriber],
   presence  |-> [publisher |-> PresencePublisher, subscriber |-> PresenceSubscriber],
   catchup   |-> [publisher |-> CatchupPublisher, subscriber |-> CatchupSubscriber],
   registry  |-> [publisher |-> RegistryPublisher, subscriber |-> RegistrySubscriber],
   rawloan   |-> [publisher |-> RawLoanPublisher, subscriber |-> RawLoanSubscriber],
   config    |-> [publisher |-> ConfigPublisher, subscriber |-> ConfigSubscriber],
   allocator |-> [publisher |-> AllocatorPublisher, subscriber |-> AllocatorSubscriber],
   waitset   |-> [publisher |-> WaitSetPublisher, subscriber |-> WaitSetSubscriber],
   shape     |-> [publisher |-> ShapePublisher, subscriber |-> ShapeSubscriber]]

ExampleStart ==
  [s \in DOMAIN ExampleEnds |->
     IF s = "byhand" THEN [publisher |-> {}, subscriber |-> {}]
     ELSE IF s = "catchup" THEN [publisher |-> {}, subscriber |-> {Started("publisher")}]
     ELSE [publisher |-> {Started("subscriber")}, subscriber |-> {}]]
===============================================================================
