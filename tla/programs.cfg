SPECIFICATION Spec
CONSTANTS
  Scenarios = {"historical", "rejected", "ignore", "cft", "coherent", "contained", "enable", "liveliness", "timestamp", "hello", "byhand", "discovery", "presence", "catchup", "registry", "rawloan", "config", "allocator", "waitset", "shape", "cppHistorical", "crossHistorical", "cppCft", "cppCoherent", "cppEnable", "cppTimestamp", "crossTimestamp", "cppHello", "cppDiscovery", "cppPresence", "cppCatchup", "cppRegistry", "cppConfig"}
  EndsOf <- AllEnds
  CodeOf <- AllCode
  StartOf <- AllStart
  UnwindsOf <- AllUnwinds
  Latency = 1
  Lease = 20
  Announce = 6
  Faulty = {"historical", "coherent", "enable", "timestamp", "catchup", "config", "allocator", "cppHistorical", "crossHistorical", "cppCoherent", "cppEnable", "cppTimestamp", "crossTimestamp", "cppCatchup", "cppConfig"}
  Robust = {"ignore", "cft", "coherent", "enable", "timestamp", "hello", "discovery", "presence", "catchup", "registry", "config", "allocator", "waitset", "shape", "cppCft", "cppCoherent", "cppEnable", "cppTimestamp", "crossTimestamp", "cppHello", "cppDiscovery", "cppPresence", "cppCatchup", "cppRegistry", "cppConfig"}
  Drains = {"historical", "ignore", "cft", "coherent", "enable", "timestamp", "hello", "discovery", "presence", "catchup", "registry", "config", "allocator", "waitset", "shape", "crossHistorical", "cppCft", "cppCoherent", "cppEnable", "cppTimestamp", "crossTimestamp", "cppHello", "cppDiscovery", "cppPresence", "cppCatchup", "cppRegistry", "cppConfig"}
INVARIANT NoFalseFailure
INVARIANT NothingStranded
PROPERTY ArmedQuiet
PROPERTY TornDownQuiet
PROPERTY Terminates
