\* Two requests in flight, one phone, two addresses, three captchas and two days.  Each limit
\* of Send refuses alone: the daily one at 2 after 0, the interval at 3 after 2 from the other
\* address, the hourly one at 3 after 1 from the same address.
CONSTANTS
  Phone = {p1}
  Purpose = {register, password_reset}
  IP = {ip1, ip2}
  Code = {c1, c2}
  Captcha = {k1, k2, k3}
  Handler = {h1, h2}
  None = None
  SMSInterval = 2
  SMSCodeTTL = 1
  Hour = 2
  Day = 3
  SMSDailyLimit = 1
  SMSIPHourlyLimit = 1
  SMSMaxAttempts = 2
  MaxTime = 3
  MaxFaults = 1
SPECIFICATION Spec
SYMMETRY Interchangeable
CHECK_DEADLOCK FALSE
INVARIANTS
  TypeOK
  RecordedSendsKeepTheLimits
  ConsecutiveCodesDiffer
  EverySMSCostsACaptcha
  GuessBudget
PROPERTIES
  AcceptedOnlyByOverlap
