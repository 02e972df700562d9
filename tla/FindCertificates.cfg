SPECIFICATION Spec
\* The bound on generations stops a process that would generate once more.
CHECK_DEADLOCK FALSE
CONSTANT MaxPairs = 2
INVARIANTS CertificatesEnsured
