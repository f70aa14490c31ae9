SPECIFICATION MCSpec
CONSTANTS
  Mac = Mac
  Phone = Phone
  Llama = Llama
  Qwen = Qwen
  Nil = Nil
  Leader = Mac
  Peers = {Phone}
  Cards = {Llama, Qwen}
  MaxEpoch = 2
  MaxRequests = 2
CHECK_DEADLOCK FALSE
PROPERTIES
  AllPeersLoaded
