------------------------- MODULE CertificatesProofs -------------------------
(***************************************************************************)
(* However often the process is killed and started again: a certificate    *)
(* that has its key is safe from the generation of another one.            *)
(***************************************************************************)
EXTENDS Certificates, TLAPS

Content == {Absent, Empty, Torn} \cup {Pair(n) : n \in Nat}

\* Where generation stands, the files are not yet, or no longer, a pair.
Fresh(file) == \A n \in Nat : file = Pair(n) => n < made
Known(file) == \A n \in Nat : file = Pair(n) => n <= made

CTypeOK ==
  /\ made \in Nat
  /\ cert \in Content /\ key \in Content
  /\ step \in {"down", "check", "load", "serving"} \cup Writing

CertInv ==
  /\ CTypeOK
  /\ Known(cert) /\ Known(key)
  /\ step = "create_cert" => ~BothExist /\ Fresh(cert) /\ Fresh(key)
  /\ step = "write_cert"  => cert = Empty /\ Fresh(key)
  /\ step = "create_key"  => cert = Pair(made) /\ Fresh(key)
  /\ step = "write_key"   => key = Empty

-----------------------------------------------------------------------------
\* The contents of a file are told apart, and pairs by their number.
LEMMA Contents ==
  /\ Absent # Empty /\ Absent # Torn /\ Empty # Torn
  /\ \A n : Pair(n) # Absent /\ Pair(n) # Empty /\ Pair(n) # Torn
  /\ \A m, n : Pair(m) = Pair(n) => m = n
<1>1. /\ Absent.is = "absent" /\ Empty.is = "empty" /\ Torn.is = "torn"
      /\ \A n : Pair(n).is = "pair" /\ Pair(n).of = n
  BY DEF Absent, Empty, Torn, Pair
<1> QED BY <1>1

LEMMA CertInit == Init => CertInv
BY Contents DEF Init, CertInv, CTypeOK, Content, Known

\* The invariant is kept by every step, the end of the process included.
LEMMA CertNext == CertInv /\ [Next]_vars => CertInv'
<1> SUFFICES ASSUME CertInv, [Next]_vars PROVE CertInv'
  OBVIOUS
<1> USE Contents
<1>1. CASE Start
  BY <1>1 DEF CertInv, CTypeOK, Known, Start, files
<1>2. CASE CertificatesExist
  BY <1>2 DEF CertInv, CTypeOK, Known, CertificatesExist, Return, files
<1>3. CASE Generate
  <2>1. Known(cert)' /\ Known(key)' /\ Fresh(cert)' /\ Fresh(key)'
    BY <1>3 DEF CertInv, CTypeOK, Known, Fresh, Generate, files
  <2> QED BY <1>3, <2>1 DEF CertInv, CTypeOK, Generate, BothExist, Writing, files
<1>4. CASE CreateCert
  BY <1>4 DEF CertInv, CTypeOK, Content, Known, Fresh, CreateCert, Writing
<1>5. CASE WriteCert
  BY <1>5 DEF CertInv, CTypeOK, Content, Known, Fresh, WriteCert, Writing
<1>6. CASE CreateKey
  BY <1>6 DEF CertInv, CTypeOK, Content, Known, CreateKey, Writing
<1>7. CASE WriteKey
  BY <1>7 DEF CertInv, CTypeOK, Content, Known, WriteKey, Return
<1>8. CASE IoError
  BY <1>8 DEF CertInv, CTypeOK, Content, Known, IoError, HalfWritten, Return, Writing
<1>9. CASE Crash
  BY <1>9 DEF CertInv, CTypeOK, Content, Known, Crash, HalfWritten
<1>10. CASE TlsOn
  BY <1>10 DEF CertInv, CTypeOK, Known, TlsOn, files
<1>11. CASE Mismatch
  BY <1>11 DEF CertInv, CTypeOK, Known, Mismatch, files
<1>12. CASE TlsOff
  BY <1>12 DEF CertInv, CTypeOK, Known, TlsOff, files
<1>13. CASE Remove
  BY <1>13 DEF CertInv, CTypeOK, Content, Known, Remove
<1>14. CASE UNCHANGED vars
  BY <1>14 DEF CertInv, CTypeOK, Known, Fresh, BothExist, vars, files
<1> QED
  BY <1>1, <1>2, <1>3, <1>4, <1>5, <1>6, <1>7, <1>8, <1>9, <1>10, <1>11, <1>12, <1>13, <1>14
     DEF Next

\* A step from a matching pair keeps both files, or somebody removed one
\* (ensure_certificates).
LEMMA KeptByStep ==
  CertInv /\ [Next]_vars /\ Matching
    => (cert' = cert /\ key' = key) \/ cert' = Absent \/ key' = Absent
<1> SUFFICES ASSUME CertInv, [Next]_vars, Matching
             PROVE  (cert' = cert /\ key' = key) \/ cert' = Absent \/ key' = Absent
  OBVIOUS
<1> USE Contents
<1>1. cert = key /\ cert # Absent /\ cert # Empty
  BY DEF Matching, Absent, Empty
<1>2. step \notin Writing
  <2>1. step # "create_cert"
    BY <1>1 DEF CertInv, BothExist
  <2>2. step # "write_cert" /\ step # "write_key"
    BY <1>1 DEF CertInv
  <2>3. step # "create_key"
    BY <1>1 DEF CertInv, CTypeOK, Fresh
  <2> QED BY <2>1, <2>2, <2>3 DEF Writing
<1>3. CASE Crash
  BY <1>2, <1>3 DEF Crash, HalfWritten, Writing
<1>4. CASE Remove
  BY <1>4 DEF Remove
<1>5. CASE Start \/ CertificatesExist \/ Generate \/ TlsOn \/ Mismatch \/ TlsOff
  BY <1>5 DEF Start, CertificatesExist, Generate, TlsOn, Mismatch, TlsOff, files
<1>6. CASE CreateCert \/ WriteCert \/ CreateKey \/ WriteKey \/ IoError
  BY <1>2, <1>6 DEF CreateCert, WriteCert, CreateKey, WriteKey, IoError, Writing
<1>7. CASE UNCHANGED vars
  BY <1>7 DEF vars, files
<1> QED BY <1>3, <1>4, <1>5, <1>6, <1>7 DEF Next

-----------------------------------------------------------------------------
\* However many generations, crashes and I/O errors there are: a pair that
\* is complete stays as it is until a file is removed (ensure_certificates
\* returns early when both files exist).
THEOREM CompletePairIsKept == Spec => PairIsKept
<1>1. Init => CertInv
  BY CertInit
<1>2. CertInv /\ [Next]_vars => CertInv'
  BY CertNext
<1>3. CertInv /\ [Next]_vars
        => [Matching => (cert' = cert /\ key' = key) \/ cert' = Absent \/ key' = Absent]_vars
  BY KeptByStep
<1> QED BY <1>1, <1>2, <1>3, PTL DEF Spec, PairIsKept
=============================================================================
