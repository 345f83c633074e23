SPECIFICATION Spec
CONSTANTS
  Streams = {s1, s2}
  Headers <- HeaderOptions
  Commands <- MCCommands
INVARIANTS TypeOK OptionsAccounted RefusedRightly ListenerCertificate
 
CHECK_DEADLOCK FALSE
