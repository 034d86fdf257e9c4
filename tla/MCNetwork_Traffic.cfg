CONSTANTS
  Two = {a1, a2}
  Three = {c1, c2, c3}
SYMMETRY Interchangeable
CHECK_DEADLOCK FALSE
SPECIFICATION NetworkSpec
INVARIANTS
  ConnectionsServed
  SessionsAccounted
  
  DatagramLinks
  
  TunnelsAccounted
  StreamIntact
  GatesHold
  AssociationsExact
