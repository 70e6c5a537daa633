------------------------- MODULE MCServicesProofs -------------------------
(***************************************************************************)
(* The services side by side: a step of one leaves the invariants of the   *)
(* others alone, since they share no variable.                             *)
(***************************************************************************)
EXTENDS MCServices, ServiceProofs, EmailOutboxProofs

ServicesInv ==
  /\ Typed /\ DispatchInv /\ QuotaInv /\ HookInv
  /\ ErasureInv /\ ErasureCounted /\ PlacementInv /\ PlacementCounted

LEMMA ServicesInitInv == ServicesInit => ServicesInv
BY InitTyped, DispatchStart, QuotaStart, HookStart, ErasureInitInv, ErasureInitCounted,
   PlacementInitInv, PlacementInitCounted DEF ServicesInit, ServicesInv

LEMMA ServicesStep == ServicesInv /\ [ServicesNext]_allVars => ServicesInv'
<1> SUFFICES ASSUME ServicesInv, [ServicesNext]_allVars PROVE ServicesInv'
  OBVIOUS
<1>1. /\ [OfferMailNext]_offerMailVars /\ [DispatchNext]_dispatchVars /\ [QuotaNext]_quotaVars
      /\ [HookNext]_hookVars /\ [ErasureNext]_erasureVars /\ [PlacementNext]_stageVars
  BY DEF ServicesNext, OnlyMail, OnlyDispatch, OnlyQuota, OnlyHooks, OnlyErasure, OnlyPlacement,
         allVars, mail
<1> QED BY <1>1, StepTyped, DispatchStep, QuotaStep, HookStep, ErasureStep, ErasureCountedStep,
           PlacementStepKeeps, PlacementCountedStep DEF ServicesInv

LEMMA ServicesTypes == ServicesInv => ServicesTypeOK
<1>1. Typed => OfferMailTypeOK
  BY DEF Typed
<1>2. DispatchInv => DispatchTypeOK
  BY DEF DispatchInv
<1>3. QuotaInv => QuotaTypeOK
  BY DEF QuotaInv
<1>4. HookInv => HookTypeOK
  BY DEF HookInv, HooksTyped, HookTypeOK, HookRow, HookCall
<1> QED BY <1>1, <1>2, <1>3, <1>4, ErasureTypes, PlacementTypes DEF ServicesInv, ServicesTypeOK

\* Whichever service runs, for every value of the constants of all six, no variable leaves
\* its domain: no attempt, admission, try or abort is counted past its limit.
THEOREM ServicesTyped == ServicesSafe => []ServicesTypeOK
<1>1. ServicesSafe => []ServicesInv
  BY ServicesInitInv, ServicesStep, PTL DEF ServicesSafe
<1> QED BY <1>1, ServicesTypes, PTL
=============================================================================
