------------------------ MODULE MCRingHealthMonitor ------------------------
EXTENDS RingHealthMonitor

CONSTANTS mac, phone, pad

OnePeer == <<mac, phone>>
TwoPeers == <<mac, pad, phone>>

\* The peer that comes and goes; the other one of TwoPeers answers slowly at
\* worst.
OnePhone == {phone}

Desktop == [link |-> "desktopUnrestricted", connectivity |-> "coreDesktop",
            declares |-> TRUE]
Mobile  == [link |-> "iosSuspended", connectivity |-> "elasticMobile",
            declares |-> TRUE]

MCPublished == [n \in Nodes |-> IF n = Local THEN Desktop ELSE Mobile]

MCSupport ==
  [l \in {"desktopUnrestricted", "androidForegroundService", "iosSuspended"} |->
     CASE l = "desktopUnrestricted" -> 8
       [] l = "androidForegroundService" -> 4
       [] OTHER -> 2]

\* The instances meet the condition under which slow peers are safe.
ASSUME LeaseOutlivesRound
=============================================================================
