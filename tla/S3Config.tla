------------------------------ MODULE S3Config ------------------------------
(***************************************************************************)
(* config.py and S3AdapterFactory.create: which bindings become a runtime, *)
(* and what the accepted sizes mean for a transfer.  Sizes are in MiB.     *)
(***************************************************************************)
EXTENDS Naturals

\* flags: boolean settings that are true, optional ones that are given, and
\* "unrecognised" for an unknown name or a value outside its domain.
Flags == {"allowInsecureHttp", "requireVersioning", "objectLockMode", "kmsKeyId",
          "unrecognised"}
Sizes == [part: Nat, threshold: Nat, range: Nat, object: Nat]
Binding ==
  [adapter: {"s3", "other"}, scheme: {"none", "http", "https", "other"},
   tls: {"disabled", "server", "mutual"}, ca: BOOLEAN,
   credential: {"plain", "json", "malformed"},
   encryption: {"none", "AES256", "aws:kms"}, flags: SUBSET Flags, sizes: Sizes]

MinPart == 5
MaxPart == 5 * 1024
MaxParts == 10000
MaxObject == 5 * 1024 * 1024

Has(b, flag) == flag \in b.flags
\* S3Config.retention_enforcement.
Enforcing(b) == Has(b, "objectLockMode")

\* The _integer checks; the ones of spool, chunk and attempts are in "unrecognised".
SizesAccepted(z) ==
  /\ z.part \in MinPart..MaxPart
  /\ z.threshold \in MinPart..z.object
  /\ z.range \in 1..z.object
  /\ z.object \in 1..MaxObject

\* S3Config.__post_init__ on the endpoint and on encryption.
EndpointAccepted(b) ==
  /\ b.scheme \in {"http", "https"}
  /\ b.scheme = "http" => Has(b, "allowInsecureHttp")
EncryptionAccepted(b) == Has(b, "kmsKeyId") <=> b.encryption = "aws:kms"

\* S3Config.from_create_context.
ConfigAccepted(b) ==
  /\ b.adapter = "s3" /\ b.scheme # "none" /\ ~Has(b, "unrecognised")
  /\ EndpointAccepted(b) /\ EncryptionAccepted(b) /\ SizesAccepted(b.sizes)

\* credentials_from_secrets: plain text, or JSON with the known fields.
CredentialAccepted(b) == b.credential \in {"plain", "json"}

\* Mutant: the endpoint scheme is not compared with the TLS mode.
SchemeIgnored(b) == b.tls # "mutual" /\ (b.tls = "server" => b.ca)

\* The checks of S3AdapterFactory.create itself.
TlsAccepted(b) ==
  /\ b.tls # "mutual"
  /\ b.tls = "disabled" => b.scheme = "http"
  /\ b.tls = "server" => b.scheme = "https" /\ b.ca

Accepted(b) == ConfigAccepted(b) /\ CredentialAccepted(b) /\ TlsAccepted(b)

\* upload_multipart's part count, and put_file's choice of a transfer.
PartsNeeded(length, z) == IF length = 0 THEN 1 ELSE (length + z.part - 1) \div z.part
InParts(length, z) == length >= z.threshold

\* The provider takes at most 5 GiB in one request.
SinglePutMax == 5 * 1024

\* Neither put_file, upload_multipart nor the provider refuses this length.
Storable(length, z) ==
  /\ length <= z.object
  /\ IF InParts(length, z) THEN PartsNeeded(length, z) <= MaxParts
                           ELSE length <= SinglePutMax
=============================================================================
