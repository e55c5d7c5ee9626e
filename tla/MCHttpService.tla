---------------------------- MODULE MCHttpService ----------------------------
(* Instances of the HTTP service, with a budget of three or four units. *)
EXTENDS HttpService

\* Uploads with and without a deadline, of which two or three leave no room for a
\* lease.  All reserve the same response limit, as requests of JavaScript and of
\* images do under the default settings, where each of the two limits is 8 MiB.
UploadSpecs == [body : {1}, limit : {2}, timed : BOOLEAN]

\* A download, and an upload with a deadline, that reserve the same response limit:
\* two downloads have room on the wire at once.
UniformSpecs == {[body |-> 0, limit |-> 2, timed |-> FALSE],
                 [body |-> 1, limit |-> 2, timed |-> TRUE]}
==============================================================================
