---------------------------- MODULE RegistryClient ----------------------------
(***************************************************************************)
(* RegistryClient (oci/registry.rs) with the token flow of oci/auth.rs,    *)
(* and the registry it talks to.  For EXTENDS: a module that uses it has   *)
(* the steps of its own that make the requests.                            *)
(*                                                                         *)
(* registry.policy says what the registry does:                            *)
(*   open         answers everything                                       *)
(*   public       401 with a Bearer challenge; a token for everybody       *)
(*   private      the same; a token for the user's credentials only        *)
(*   basic        401 with a Basic challenge                               *)
(*   lazy_basic   answers /v2/ and wants Basic on everything else          *)
(*   lazy_bearer  answers /v2/ and wants a token on everything else        *)
(*   odd          answers /v2/ with another status                         *)
(* registry.creds says whether the user gave name and password.            *)
(***************************************************************************)
VARIABLES registry, token

Policies == {"open", "public", "private", "basic", "lazy_basic", "lazy_bearer", "odd"}
Registries == [policy : Policies, creds : BOOLEAN]
Tokens == {"none", "valid", "expired"}

(* The answer to GET /v2/, which is asked without any authorization.       *)
ApiStatus ==
  CASE registry.policy \in {"open", "lazy_basic", "lazy_bearer"} -> "ok"
    [] registry.policy \in {"public", "private"}                 -> "bearer"
    [] registry.policy = "basic"                                 -> "basic"
    [] OTHER                                                     -> "other"

(* WwwAuthenticate::parse strips "Bearer " only, so that in a Basic        *)
(* challenge it finds no key named realm.                                  *)
ChallengeParsed == ApiStatus = "bearer"

(* request_token: credentials go along if there are any.                   *)
TokenGranted ==
  \/ registry.policy = "public"
  \/ registry.policy = "private" /\ registry.creds

(* Mutant of AddAuth: the credentials win over the token.                  *)
AddAuthBasicFirst ==
  IF registry.creds THEN "basic" ELSE IF token # "none" THEN "bearer" ELSE "nothing"

(* add_auth: the token if there is one, else the credentials.              *)
AddAuth ==
  IF token # "none" THEN "bearer" ELSE IF registry.creds THEN "basic" ELSE "nothing"

(* Does the registry answer a request that carries that?                   *)
Answers ==
  CASE registry.policy = "open"                  -> TRUE
    [] registry.policy \in {"public", "private"} -> AddAuth = "bearer" /\ token = "valid"
    [] registry.policy = "lazy_basic"            -> AddAuth = "basic"
    [] OTHER                                     -> FALSE

(* A token is used until the end: expires_in is read and forgotten, and a  *)
(* 401 is an HttpClientError, which is not retried.                        *)
TokenExpires == token = "valid" /\ token' = "expired" /\ UNCHANGED registry
=============================================================================
