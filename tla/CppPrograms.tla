----------------------------- MODULE CppPrograms ------------------------------
(***************************************************************************)
(* The C++ programs of integration-tests/cpp and examples/cpp that are      *)
(* ports of the C programs of the same name: the same calls in the same     *)
(* order, the same loops with the same timeouts, the same listeners.  What  *)
(* differs is how they end.  A C++ main that returns, whatever it returns,  *)
(* destroys the factory it holds and leaves the domain, where a C main that *)
(* returns 1 leaves its participant to the others' leases.                  *)
(*                                                                         *)
(* The cross-binding tests of integration-tests/interop run one side of a   *)
(* pair in each language.                                                   *)
(***************************************************************************)
EXTENDS IntegrationPrograms, ExamplePrograms

CppHistoricalPublisher  == HistoricalPublisher
CppHistoricalSubscriber == HistoricalSubscriber
CppCftPublisher         == CftPublisher
CppCftSubscriber        == CftSubscriber
CppCoherentPublisher    == CoherentPublisher
CppCoherentSubscriber   == CoherentSubscriber
CppConfigurer           == Configurer
CppEnablePeer           == EnablePeer
CppTimestampPublisher   == TimestampPublisher
CppTimestampSubscriber  == TimestampSubscriber
CppHelloPublisher       == HelloPublisher
CppHelloSubscriber      == HelloSubscriber
CppDiscoveryPublisher   == DiscoveryPublisher
CppDiscoverySubscriber  == DiscoverySubscriber
CppPresencePublisher    == PresencePublisher
CppPresenceSubscriber   == PresenceSubscriber
CppCatchupPublisher     == CatchupPublisher
CppCatchupSubscriber    == CatchupSubscriber
CppRegistryPublisher    == RegistryPublisher
CppRegistrySubscriber   == RegistrySubscriber
CppConfigPublisher      == ConfigPublisher
CppConfigSubscriber     == ConfigSubscriber

CppCode ==
  [cppHistorical |-> [publisher |-> CppHistoricalPublisher, subscriber |-> CppHistoricalSubscriber],
   crossHistorical |-> [publisher |-> CppHistoricalPublisher, subscriber |-> HistoricalSubscriber],
   cppCft        |-> [publisher |-> CppCftPublisher, subscriber |-> CppCftSubscriber],
   cppCoherent   |-> [publisher |-> CppCoherentPublisher, subscriber |-> CppCoherentSubscriber],
   cppEnable     |-> [configurer |-> CppConfigurer, peer |-> CppEnablePeer],
   cppTimestamp  |-> [publisher |-> CppTimestampPublisher, subscriber |-> CppTimestampSubscriber],
   crossTimestamp |-> [publisher |-> TimestampPublisher, subscriber |-> CppTimestampSubscriber],
   cppHello      |-> [publisher |-> CppHelloPublisher, subscriber |-> CppHelloSubscriber],
   cppDiscovery  |-> [publisher |-> CppDiscoveryPublisher, subscriber |-> CppDiscoverySubscriber],
   cppPresence   |-> [publisher |-> CppPresencePublisher, subscriber |-> CppPresenceSubscriber],
   cppCatchup    |-> [publisher |-> CppCatchupPublisher, subscriber |-> CppCatchupSubscriber],
   cppRegistry   |-> [publisher |-> CppRegistryPublisher, subscriber |-> CppRegistrySubscriber],
   cppConfig     |-> [publisher |-> CppConfigPublisher, subscriber |-> CppConfigSubscriber]]

\* The C scenario a C++ one has its endpoints and its order of starts from, and
\* the programs of it that are C++.
CppPortOf ==
  [cppHistorical |-> "historical", crossHistorical |-> "historical", cppCft |-> "cft",
   cppCoherent |-> "coherent", cppEnable |-> "enable", cppTimestamp |-> "timestamp",
   crossTimestamp |-> "timestamp", cppHello |-> "hello", cppDiscovery |-> "discovery",
   cppPresence |-> "presence", cppCatchup |-> "catchup", cppRegistry |-> "registry",
   cppConfig |-> "config"]
CppSides(s) ==
  CASE s = "crossHistorical" -> {"publisher"}
    [] s = "crossTimestamp"  -> {"subscriber"}
    [] OTHER                 -> DOMAIN CppCode[s]
===============================================================================
