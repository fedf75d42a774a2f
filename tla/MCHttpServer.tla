---------------------------- MODULE MCHttpServer ----------------------------
(* Instances of the web server for model checking. *)
EXTENDS HttpServer

\* With a version and a header with a lone CR in it; another url, with a lone CR
\* in the Request-Line; no space at all.
SomeRequests == {
  <<"c", "sp", "/", "sp", "cr", "lf", "cr", "c", "cr", "lf", "cr", "lf">>,
  <<"c", "sp", "cr", "/", "cr", "lf", "cr", "lf">>,
  <<"c", "cr", "lf">> }

\* The hypothesis of the proofs holds of these requests.
ASSUME RequestsWellFormed == \A r \in Requests : WellFormed(r)
=============================================================================
