--------------------------- MODULE MCRingWatchdog ---------------------------
EXTENDS RingWatchdog

CONSTANTS mac, phone

MCReasons ==
  [kind : {"memberDeparted", "memberUnreachable"}, node : {mac, phone}]
=============================================================================
