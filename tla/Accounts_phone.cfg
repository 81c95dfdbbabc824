SPECIFICATION FairSpec
CONSTANTS
  Phone = {phone1}
  Person = {ann, bob}
  Nobody = Nobody
  Events <- Everything
  MaxCalls = 2
  MaxTaps = 2
INVARIANT TypeOK
INVARIANT StoresAgree
INVARIANT HomeFitsUser
INVARIANT CrashNeedsRace
PROPERTY RoutinesKept
PROPERTY SignupCompletes
PROPERTY LoginArrives
