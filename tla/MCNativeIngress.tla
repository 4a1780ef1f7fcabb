-------------------------- MODULE MCNativeIngress --------------------------
(***************************************************************************)
(* Instances of NativeIngress for TLC: the threads, the bridges and the    *)
(* capabilities of each run.                                               *)
(***************************************************************************)
EXTENDS NativeIngress, TLC

CONSTANTS t1, t2, export, callback, dllmain, tls, shared_target

ThreadSymmetry == Permutations({t1, t2})

NoEvents == [c \in Capabilities |-> "none"]
NoTargets == [c \in Capabilities |-> NoTarget]
AllOrdinary == [b \in Bridges |-> "none"]
NoneLent == {}
NoPairs == {}

\* Capability 0 is lent for the duration of a call; 1 escapes, one shot.
CallAndOneShot == (0 :> "during_call") @@ (1 :> "one_shot")
CallbackByBoth == (export :> <<>>) @@ (callback :> <<0, 1>>)
LendFirst == {0}
LendSecond == {1}

\* One during-call capability.
CallOnly == 0 :> "during_call"
CallbackByFirst == (export :> <<>>) @@ (callback :> <<0>>)

\* The loader: an escaped one-shot and a during-call capability.
LoaderModes ==
  (export :> "none") @@ (callback :> "none") @@ (dllmain :> "dllmain") @@ (tls :> "tls")
LoaderCapabilities ==
  (export :> <<>>) @@ (callback :> <<0>>) @@ (dllmain :> <<>>) @@ (tls :> <<>>)
OneShotOnly == 0 :> "one_shot"

\* Every lifetime: 1 and 2 share a compact target, 1 is ended by an event and is
\* replaced by 2.
EveryLifetime ==
  (0 :> "during_call") @@ (1 :> "until_event") @@ (2 :> "until_replaced") @@ (3 :> "one_shot")
ClosedEndsSecond == [c \in Capabilities |-> IF c = 1 THEN "closed" ELSE "none"]
CompactTargets == [c \in Capabilities |-> IF c \in {1, 2} THEN shared_target ELSE NoTarget]
CallbackByAll == (export :> <<>>) @@ (callback :> <<0, 1, 2, 3>>)
LendAll == Capabilities
LendOneShot == {3}
ReplaceSecond == {<<1, 2>>}
=============================================================================
