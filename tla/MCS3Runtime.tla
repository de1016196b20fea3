---------------------------- MODULE MCS3Runtime ----------------------------
(* A small instance of S3Runtime: bindings and provider answers. *)
EXTENDS S3Runtime

Usual == [part |-> 8, threshold |-> 16, range |-> 64, object |-> MaxObject]
Plain(flags) ==
  [adapter |-> "s3", scheme |-> "http", tls |-> "disabled", ca |-> FALSE,
   credential |-> "plain", encryption |-> "none",
   flags |-> flags \cup {"allowInsecureHttp"}, sizes |-> Usual]
Secured(flags) ==
  [Plain(flags) EXCEPT !.scheme = "https", !.tls = "server", !.ca = TRUE,
                       !.credential = "json", !.flags = flags]

Features == SUBSET {"requireVersioning", "objectLockMode"}

\* Bindings that are accepted, and for each check one that it refuses.
SampleBindings ==
  {Secured(f) : f \in Features} \cup {Plain({}),
   [Secured({"kmsKeyId"}) EXCEPT !.encryption = "aws:kms"],
   [Secured({}) EXCEPT !.sizes.part = 5, !.sizes.threshold = 5],
   [Secured({}) EXCEPT !.sizes.threshold = 5, !.sizes.object = 5, !.sizes.range = 5],
   [Secured({}) EXCEPT !.sizes.threshold = 6000],
   [Secured({}) EXCEPT !.sizes.part = 1],
   [Secured({}) EXCEPT !.adapter = "other"], [Secured({}) EXCEPT !.scheme = "none"],
   [Secured({}) EXCEPT !.tls = "mutual"], [Secured({}) EXCEPT !.tls = "disabled"],
   [Secured({}) EXCEPT !.ca = FALSE], [Plain({}) EXCEPT !.flags = {}],
   [Plain({}) EXCEPT !.tls = "server", !.ca = TRUE],
   [Secured({}) EXCEPT !.credential = "malformed"],
   Secured({"kmsKeyId"}), Secured({"unrecognised"})}

\* The default sizes, and an object and a threshold above one request.
SizedBindings == {Secured({}), [Secured({}) EXCEPT !.sizes.threshold = 6000,
                                                   !.sizes.object = 6000]}

Answers ==
  {[kind |-> "response", code |-> "AccessDenied", status |-> "403"],
   [kind |-> "response", code |-> "404", status |-> "404"],
   [kind |-> "transport", code |-> "", status |-> ""]}
=============================================================================
