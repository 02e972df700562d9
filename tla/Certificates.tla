---------------------------- MODULE Certificates ----------------------------
(***************************************************************************)
(* The TLS certificate and its key (tls.rs, and main.rs where it loads     *)
(* them): two files, generated when one is missing and written one after   *)
(* the other, by a process that may end in between and that the service    *)
(* manager starts again.                                                   *)
(*                                                                         *)
(* A certificate and a key belong together when they come from the same    *)
(* generation; cryptography and PEM are external.                          *)
(***************************************************************************)
EXTENDS Naturals

CONSTANT MaxPairs  \* bound: how many pairs are generated

VARIABLES
  cert, key,  \* the two files
  made,       \* generations so far
  step,       \* where main is
  ensured,    \* ensure_certificates returned Ok
  tls         \* the TLS listener is on

files == <<cert, key>>
vars  == <<files, made, step, ensured, tls>>

Absent  == [is |-> "absent"]
Empty   == [is |-> "empty"]
Torn    == [is |-> "torn"]
Pair(n) == [is |-> "pair", of |-> n]

Writing == {"create_cert", "write_cert", "create_key", "write_key"}

Init ==
  /\ cert = Absent /\ key = Absent /\ made = 0
  /\ step = "down" /\ ensured = FALSE /\ tls = FALSE

-----------------------------------------------------------------------------
\* The service manager starts the process (Restart=always).
Start ==
  /\ step = "down" /\ step' = "check"
  /\ UNCHANGED <<files, made, ensured, tls>>

\* Both files exist, whatever is in them.
BothExist == cert # Absent /\ key # Absent

Return(ok) == step' = "load" /\ ensured' = ok

CertificatesExist ==
  /\ step = "check" /\ BothExist
  /\ Return(TRUE)
  /\ UNCHANGED <<files, made, tls>>

Generate ==
  /\ step = "check" /\ ~BothExist /\ made < MaxPairs
  /\ made' = made + 1 /\ step' = "create_cert"
  /\ UNCHANGED <<files, ensured, tls>>

\* File::create truncates, write_all follows.
CreateCert ==
  /\ step = "create_cert" /\ step' = "write_cert"
  /\ cert' = Empty
  /\ UNCHANGED <<key, made, ensured, tls>>

WriteCert ==
  /\ step = "write_cert" /\ step' = "create_key"
  /\ cert' = Pair(made)
  /\ UNCHANGED <<key, made, ensured, tls>>

CreateKey ==
  /\ step = "create_key" /\ step' = "write_key"
  /\ key' = Empty
  /\ UNCHANGED <<cert, made, ensured, tls>>

WriteKey ==
  /\ step = "write_key"
  /\ key' = Pair(made)
  /\ Return(TRUE)
  /\ UNCHANGED <<cert, made, tls>>

\* What a write that did not get through leaves behind.
HalfWritten(s) ==
  /\ cert' \in (IF s = "write_cert" THEN {cert, Torn} ELSE {cert})
  /\ key' \in (IF s = "write_key" THEN {key, Torn} ELSE {key})

\* An I/O error: main logs it and goes on.
IoError ==
  /\ step \in Writing
  /\ HalfWritten(step)
  /\ Return(FALSE)
  /\ UNCHANGED <<made, tls>>

\* The process is killed or the power fails.
Crash ==
  /\ step # "down" /\ step' = "down"
  /\ HalfWritten(step)
  /\ ensured' = FALSE /\ tls' = FALSE
  /\ UNCHANGED made

-----------------------------------------------------------------------------
(* Loading.  A certificate file without a certificate is read as an empty  *)
(* chain, a key file without a key is an error.                            *)

CertLoads == cert.is \in {"empty", "pair"}
KeyLoads  == key.is = "pair"
Matching  == cert.is = "pair" /\ key = cert

\* with_single_cert accepts the key for the certificate.
TlsOn ==
  /\ step = "load" /\ CertLoads /\ KeyLoads /\ Matching
  /\ step' = "serving" /\ tls' = TRUE
  /\ UNCHANGED <<files, made, ensured>>

\* with_single_cert refuses: main returns the error, and the process ends.
Mismatch ==
  /\ step = "load" /\ CertLoads /\ KeyLoads /\ ~Matching
  /\ step' = "down" /\ ensured' = FALSE
  /\ UNCHANGED <<files, made, tls>>

\* A file is missing or cannot be loaded: plain TCP and WebSocket only.
TlsOff ==
  /\ step = "load" /\ ~(CertLoads /\ KeyLoads)
  /\ step' = "serving"
  /\ UNCHANGED <<files, made, ensured, tls>>

\* External: somebody removes a file, to have it generated again.
Remove ==
  /\ step \in {"down", "serving"} /\ BothExist
  /\ \/ cert' = Absent /\ UNCHANGED key
     \/ key' = Absent /\ UNCHANGED cert
  /\ UNCHANGED <<made, step, ensured, tls>>

Next ==
  \/ Start \/ CertificatesExist \/ Generate
  \/ CreateCert \/ WriteCert \/ CreateKey \/ WriteKey \/ IoError \/ Crash
  \/ TlsOn \/ Mismatch \/ TlsOff \/ Remove

Spec == Init /\ [][Next]_vars

-----------------------------------------------------------------------------
\* tls.rs: "Ensures that TLS certificates exist at the specified paths.  If
\* they do not, it generates a new self-signed certificate": when it has
\* succeeded, there is a certificate and its key.
CertificatesEnsured == step = "load" /\ ensured => Matching

\* A certificate with its key is never overwritten, in part or as a whole:
\* it stays until somebody removes a file (ensure_certificates generates
\* into paths of which one is free).
PairIsKept ==
  [][Matching => (cert' = cert /\ key' = key) \/ cert' = Absent \/ key' = Absent]_vars
=============================================================================
