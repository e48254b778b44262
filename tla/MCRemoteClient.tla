--------------------------- MODULE MCRemoteClient ---------------------------
(***************************************************************************)
(* Workloads of RemoteClient.                                              *)
(***************************************************************************)
EXTENDS RemoteClient

\* A turn of two events over carriers that hold.
Quiet ==
    [ops |-> {}, ask |-> 0, slow |-> FALSE, ends |-> {"lost"}, connections |-> 2, breaks |-> 0,
     timeouts |-> 0, events |-> 2, max_attempts |-> 1]

\* A turn that asks while its carrier fails; ones for which no
\* other carrier can be opened, or whose carrier is denied.
Asking == [Quiet EXCEPT !.ask = 1, !.breaks = 1]

Stranded == [Asking EXCEPT !.connections = 1, !.max_attempts = 2]

Denied == [Asking EXCEPT !.ends = {"denied"}]

\* A slow consumer while the carrier fails.
Slow == [Quiet EXCEPT !.slow = TRUE, !.breaks = 1]

\* A turn that misses more events than a page holds.
Long == [Quiet EXCEPT !.events = 3, !.breaks = 1]

\* A turn beside another call.
Calling == [Quiet EXCEPT !.ops = {"Health", "Interrupt", "Dispose", "Attach"}]

\* A turn of one event beside a disposal, while the carrier fails.
Disposing == [Quiet EXCEPT !.ops = {"Dispose"}, !.breaks = 1, !.events = 1]

\* A turn whose start times out twice.
Late == [Quiet EXCEPT !.timeouts = 2]

AllWorkloads == {Asking, Stranded, Denied, Slow, Long, Calling, Disposing, Late}

\* A turn whose carrier fails.
Broken == {[Quiet EXCEPT !.breaks = 1]}
=============================================================================
