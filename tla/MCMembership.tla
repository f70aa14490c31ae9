---------------------------- MODULE MCMembership ----------------------------
EXTENDS Membership

CONSTANTS Mac, Phone

\* A desktop and a phone; the phone may declare that it will not hold a
\* required stage, then it joins as opportunistic.
MCOffers ==
  [n \in {Mac, Phone} |->
     IF n = Mac
       THEN {[link |-> "desktopUnrestricted", connectivity |-> "coreDesktop",
              declares |-> TRUE]}
       ELSE {[link |-> "iosSuspended", connectivity |-> "elasticMobile",
              declares |-> d] : d \in BOOLEAN}]

\* One unit is ten seconds, scaled from 300, 120 and 30.
MCSupport ==
  [l \in Links |-> CASE l = "desktopUnrestricted" -> 4
                     [] l = "androidForegroundService" -> 3
                     [] OTHER -> 1]
=============================================================================
