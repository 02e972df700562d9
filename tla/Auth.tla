-------------------------------- MODULE Auth --------------------------------
(***************************************************************************)
(* config.rs: who may connect, and who may read or write which topic.      *)
(* The configuration is read once, when the process starts.                *)
(***************************************************************************)
EXTENDS Topics

CONSTANTS
  CredentialsFile,    \* [state, users]: state is "missing", "broken" (cannot be
                      \* opened, read or parsed) or "ok"; users maps a user name
                      \* to [password, acl], acl a set of [topic, access]
  AllowAnonymous      \* PIPISTRELLE_ALLOW_ANONYMOUS is set to a true value

ASSUME AuthAssumption ==
  /\ CredentialsFile.state \in {"missing", "broken", "ok"}
  /\ AllowAnonymous \in BOOLEAN

\* AuthConfig::load.  users: None (anonymous mode) is enforced = FALSE.
load ==
  CASE CredentialsFile.state = "ok" -> [enforced |-> TRUE, users |-> CredentialsFile.users]
    [] CredentialsFile.state = "missing" /\ AllowAnonymous -> [enforced |-> FALSE, users |-> << >>]
    [] OTHER -> [enforced |-> TRUE, users |-> << >>]

auth == load

\* Argon2: an encoded hash accepts one password.
verify_password(password, encoded_hash) == encoded_hash = password

\* AuthConfig::authenticate
authenticate(username, password) ==
  auth.enforced =>
    /\ username \in DOMAIN auth.users
    /\ verify_password(password, auth.users[username].password)

\* handle_connection: both or neither of the two optional fields.
Authenticated(username, password) ==
  \/ username # << >> /\ password # << >> /\ authenticate(username[1], password[1])
  \/ username = << >> /\ password = << >> /\ authenticate("", "")

\* session.username.as_deref().unwrap_or("")
UserName(username) == IF username = << >> THEN "" ELSE username[1]

Allowed(access, action) == access = "readwrite" \/ (access \in {"read", "write"} /\ access = action)

\* AuthConfig::authorize
authorize(username, topic, action) ==
  auth.enforced =>
    /\ username \in DOMAIN auth.users
    /\ \E rule \in auth.users[username].acl :
         Allowed(rule.access, action) /\ topic_matches_acl_filter(topic, rule.topic)
=============================================================================
