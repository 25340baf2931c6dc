---------------------------- MODULE PayoutMethods ----------------------------
(***************************************************************************)
(* The payout methods of one user (wallet/payout-methods.service.ts).      *)
(*                                                                         *)
(* Methods are provisioned when an account is approved (Verification);     *)
(* initiateAdd, update and delete only refuse.                             *)
(***************************************************************************)
EXTENDS Naturals

CONSTANTS
  Details,    \* a legal name with its mobile money number
  MethodIds,  \* ids of payout_methods rows
  None

ASSUME PayoutAssumption == None \notin Details /\ None \notin MethodIds

VARIABLES methods  \* payout_methods

NoMethod == [details |-> None, isDefault |-> FALSE]

Present == {m \in MethodIds : methods[m] # NoMethod}
Insert(m, d, isDefault) ==
  methods' = [methods EXCEPT ![m] = [details |-> d, isDefault |-> isDefault]]
=============================================================================
