SPECIFICATION Spec
CONSTANT
  Offers = {{}, {"guest"}, {"dhx2"}, {"srp"}, {"cleartext"}, {"guest", "dhx2", "cleartext"}, {"guest", "srp", "cleartext"}}
INVARIANT NoConnectionLeft
INVARIANT TeardownMirrors
PROPERTY ServerIsReady
PROPERTY Ends
CHECK_DEADLOCK FALSE
