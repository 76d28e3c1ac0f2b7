SPECIFICATION Spec
CONSTANTS
  web = web
  test = test
  Credential <- Three
  Account <- AccountOfThree
  Site = {web, test}
  SiteOf <- SiteOfThree
  TEST_SITE = test
  MAX_COUNT <- CountOfThree
INVARIANTS
  CounterGrows
PROPERTY
  StoreIsAtomic
