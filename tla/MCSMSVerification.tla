------------------------- MODULE MCSMSVerification -------------------------
(* Instances of SMSVerification for TLC. *)
EXTENDS SMSVerification, TLC

(* Requests, captchas and codes are interchangeable. *)
Interchangeable ==
  Permutations(Handler) \cup Permutations(Captcha) \cup Permutations(Code)

=============================================================================
