-------------------------- MODULE MCSubscriptions ---------------------------
(* One customer, a plan of one day and one of two.  A behaviour is either   *)
(* one in which passes and requests are alone, or a shorter one of one      *)
(* pass in which an administrator edits the subscription and enforceUser    *)
(* runs, which what is said of time and plans does not cover.               *)
EXTENDS Subscriptions

CONSTANTS p1, pass1, pass2

VARIABLE alone

MCDays == [p \in Plan |-> IF p = p1 THEN 1 ELSE 2]

MCInit == SubInit /\ alone \in BOOLEAN

InBounds ==
  IF alone THEN call' = call /\ edits' = 0
  ELSE now' <= 1 /\ Len(orders') <= 2 /\ gifts' = << >> /\ \A p \in Pass \ {pass1} : pass'[p] = pass[p]

MCNext == SubNext /\ InBounds /\ UNCHANGED alone

MCSpec == MCInit /\ [][MCNext]_<<subVars, alone>>

FairMCSpec == MCSpec /\ \A p \in Pass : WF_subVars(alone /\ PassStep(p))

(* What is paid for is served, and what is left of a grace period does not  *)
(* end it (billing-api.js:285-294, billing.js:210-214).                     *)
PaidTimeSound == SubTypeOK /\ (alone => PaidTimeKept /\ GraceSound)

(* A renewal is charged once for a period, and not before it is due         *)
(* (billing.js:504-513).                                                    *)
ChargesSound == AutoOncePerPeriod /\ (alone => AutoRenewalsDue)

(* A plan sold once is had once (billing.js:85).                            *)
PlansOnce == alone => OnceAcquired

(* What has ended does not stay in force (billing.js:553-566).              *)
EndedSettles == \A s \in Sub : alone /\ Ended(s) ~> ~Ended(s)
=============================================================================
