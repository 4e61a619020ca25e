---------------------------- MODULE MCConnection ----------------------------
(* Orders of handlers that are registered, with one operation for two       *)
(* targets, of the one whose operation has no name, and of none; payloads   *)
(* at both sides of the changes of the frame format and of the streambuf.   *)
EXTENDS Connection

Of(target, operation, n) == [target |-> target, operation |-> operation, length |-> n]

MCOrders ==
  {Of("image", "list", 125), Of("container", "list", 126), Of("container", "stop", 1025),
   Of("container", "other", 65536)}
MCReplies == {200}
=============================================================================
