---------------------------- MODULE FeishuWorld -----------------------------
(* What the connections of channels and the handling of their messages     *)
(* depend on.                                                              *)
CONSTANTS
  None,
  Worlds       \* the environments considered

VARIABLE world \* the environment, which never changes

Faults == world.faults    \* may WSClient.start, the container or Feishu fail?
Crashes == world.crashes  \* may the API process crash?
=============================================================================
