------------------------------ MODULE TLSConfig ------------------------------
(***************************************************************************)
(* internal/tls: which certificate a combination of --tls flags gives.     *)
(*                                                                         *)
(* given is the set of files the flags name and bad those of them that     *)
(* cannot be read.  What the files hold, generating a key and signing are  *)
(* not modelled.                                                           *)
(***************************************************************************)

Files == {"cert", "key", "ca-cert", "ca-key"}

\* No certificate, the user's, one signed by the user's CA, one signed by a CA
\* generated for this run.
Certificates == {"none", "given", "signed by CA", "self-signed"}

Pair == {"cert", "key"}
CAPair == {"ca-cert", "ca-key"}

\* Mutant: the certificate of a server is generated even when one was given.
CertificateAlwaysGenerated(given, server) ==
  IF server THEN IF CAPair \subseteq given THEN "signed by CA" ELSE "self-signed"
  ELSE IF Pair \subseteq given THEN "given" ELSE "none"

\* Half a pair of flags counts as none.
Certificate(given, server) ==
  CASE Pair \subseteq given -> "given"
    [] ~(Pair \subseteq given) /\ ~server -> "none"
    [] ~(Pair \subseteq given) /\ server ->
         IF CAPair \subseteq given THEN "signed by CA" ELSE "self-signed"

\* A file is only looked at where it is used: the key of the CA by a server that
\* has to generate, its certificate by everybody, for RootCAs.
LoadsCA(given, bad, server) ==
  Certificate(given, server) = "signed by CA" => bad \cap CAPair = {}

Loads(given, bad, server) ==
  /\ ~("ca-cert" \in given /\ "ca-cert" \in bad)
  /\ Pair \subseteq given => bad \cap Pair = {}
  /\ LoadsCA(given, bad, server)
=============================================================================
