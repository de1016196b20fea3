------------------------------ MODULE S3Errors ------------------------------
(***************************************************************************)
(* errors.py: which Object error a provider failure becomes.  The adapter  *)
(* steers by the result (a not-found is an absent object, a conflict a     *)
(* lost race), so the order of the tests matters where a failure passes    *)
(* several of them.                                                        *)
(***************************************************************************)
EXTENDS Naturals

\* What the SDK raises: a response of the provider with a code and an HTTP
\* status, its own refusal of a request, or a transport failure.  For a HEAD
\* the code is the status, because there is no body.
Failure == [kind: {"response", "invalid", "transport"}, code: STRING, status: STRING]

Authentication == {"AuthorizationHeaderMalformed", "ExpiredToken", "InvalidAccessKeyId",
                   "InvalidToken", "SignatureDoesNotMatch", "TokenRefreshRequired"}
NotFound == {"404", "NoSuchBucket", "NoSuchKey", "NoSuchUpload", "NotFound"}
Conflict == {"409", "ConditionalRequestConflict", "PreconditionFailed"}
RateLimit == {"RequestLimitExceeded", "SlowDown", "Throttling", "ThrottlingException"}
Quota == {"EntityTooLarge", "InsufficientStorage", "QuotaExceeded", "StorageFull"}
Corruption == {"BadDigest", "ChecksumMismatch", "InvalidDigest"}
Denied == {"AccessDenied", "AllAccessDisabled", "MethodNotAllowed"}

\* The tests of normalize_s3_error, in its order: a response passes a test by
\* its code or by its status.  A denial under retention is the retention's.
Tests(sensitive) ==
  LET test(codes, statuses, error) == [codes |-> codes, statuses |-> statuses, error |-> error]
  IN << test(Authentication, {}, "ObjectAuthenticationFailed"),
        test(NotFound, {"404"}, "ObjectNotFound"),
        test(Conflict, {"412"}, "ConditionalConflict"),
        test({"InvalidRange"}, {"416"}, "RangeNotSatisfiable"),
        test(RateLimit, {"429"}, "ObjectRateLimited"),
        test(Quota, {"507"}, "ObjectQuotaExceeded"),
        test(Corruption, {}, "DigestMismatch"),
        IF sensitive THEN test(Denied \cup {"InvalidRequest"}, {"403"}, "RetentionDenied")
                     ELSE test(Denied, {"403"}, "ObjectAuthorizationFailed") >>

\* What normalize_s3_error returns.
Errors == {"ObjectAuthenticationFailed", "ObjectNotFound", "ConditionalConflict",
           "RangeNotSatisfiable", "ObjectRateLimited", "ObjectQuotaExceeded",
           "DigestMismatch", "RetentionDenied", "ObjectAuthorizationFailed",
           "ObjectInvalidRequest", "ObjectUnavailable"}

\* normalize_s3_error: the first test passed decides.
Normalized(f, sensitive) ==
  LET tests == Tests(sensitive)
      passed == {i \in 1..8 : f.code \in tests[i].codes \/ f.status \in tests[i].statuses}
  IN IF f.kind = "invalid" THEN "ObjectInvalidRequest"
     ELSE IF f.kind = "transport" \/ passed = {} THEN "ObjectUnavailable"
     ELSE tests[CHOOSE i \in passed : \A j \in passed : i <= j].error
=============================================================================
