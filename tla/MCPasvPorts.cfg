SPECIFICATION FairSpec
CONSTANTS
  s1 = s1
  s2 = s2
  s3 = s3
  Sessions = {s1, s2, s3}
  pasv_port_start = 254
  pasv_port_end = 257
  OtherPorts = {255, 256}
  Faults = {"socket", "setsockopt", "bind", "listen", "getsockname"}
INVARIANTS
  TypeOK
  ToldListening
  SocketMeansTold
  NoFalseExhaustion
PROPERTIES
  PasvAnswered
