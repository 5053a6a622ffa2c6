--------------------------- MODULE Authentication ---------------------------
(***************************************************************************)
(* The authz package: how the AuthenticationClasses a TrinoCluster names   *)
(* become volumes, mounts, environment variables, shell exports and        *)
(* configuration properties.  A class is abstracted to the provider it     *)
(* configures; of the properties only the environment variables they refer *)
(* to (${ENV:...}) and the authentication type are kept.                   *)
(***************************************************************************)
EXTENDS Naturals, Sequences

CONSTANT Classes        \* names of AuthenticationClasses

ASSUME ClassesAreSomething == Classes # {}

AuthenticationTypes == {"oidc", "static", "ldap"}

\* What a read of an AuthenticationClass can find: one of the three providers
\* this operator supports, another provider, or no such object.
Providers == AuthenticationTypes \cup {"other", "missing"}

\* One element of clusterConfig.authentication; oidc says whether the optional
\* OidcSpec is given.
AuthenticationSpec == [class : Classes, oidc : BOOLEAN]

OidcEnvVars == {"OIDC_CLIENT_ID", "OIDC_CLIENT_SECRET"}
LdapEnvVars == {"LDAP_USER", "LDAP_PASSWORD"}
AuthEnvVars == OidcEnvVars \cup LdapEnvVars
AuthVolumes == {"ldap-bind-credentials", "auth-secrets-"}

\* The authenticators made from the providers that one NewAuthentication call
\* read: a provider of another kind gives none.
AuthenticatorFectory(read) == read \cap AuthenticationTypes

\* NewAuthentication cannot use provider p after it has read the set `read`: a
\* missing class leaves a nil provider that AuthenticatorFectory dereferences
\* (a panic); a second authenticator of one type is an error.
NewAuthenticationFails(p, read) ==
    \/ p = "missing"
    \/ p \in AuthenticatorFectory(read)

\* Mutant: an authenticator whose variables are forgotten.
NoVariables(T) == {}

\* The aggregated getters of TrinoAuthentication over a set T of authenticators.
GetEnvVars(T) == IF "oidc" \in T THEN OidcEnvVars ELSE {}

GetCommands(T) == IF "ldap" \in T THEN LdapEnvVars ELSE {}

GetVolumes(T) ==
    (IF "ldap" \in T THEN {"ldap-bind-credentials"} ELSE {})
        \cup (IF "static" \in T THEN {"auth-secrets-"} ELSE {})

GetVolumeMounts(T) ==
    (IF "ldap" \in T THEN {"ldap-bind-credentials"} ELSE {})
        \cup (IF "static" \in T THEN {"auth-secrets-"} ELSE {})

\* The variables the authentication properties of the coordinator refer to.
GetConfigProperties(T) ==
    (IF "oidc" \in T THEN OidcEnvVars ELSE {})
        \cup (IF "ldap" \in T THEN LdapEnvVars ELSE {})

\* Mutant: the first authenticator of the list decides, whatever its type.
FirstAuthType(T) ==
    IF T = {} THEN {"unset"} ELSE {IF t \in {"oidc", "ldap"} THEN t ELSE "unset" : t \in T}

\* The value http-server.authentication.type may end up with: OIDC and LDAP both
\* set it, and the list of authenticators is in the iteration order of a Go map.
AuthenticationTypeValues(T) ==
    IF T \cap {"oidc", "ldap"} = {} THEN {"unset"} ELSE T \cap {"oidc", "ldap"}

\* Oidc.GetConfigProperties and Oidc.GetEnvVars dereference the OidcSpec, which
\* is optional.
OidcConfigMissing(p, entry) == p = "oidc" /\ ~entry.oidc

\* Static.GetConfigProperties returns a nil *Properties, on which the aggregator
\* calls Keys(): the call may panic.
StaticConfigIsNil(p) == p = "static"
=============================================================================
