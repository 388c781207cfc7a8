SPECIFICATION Spec
CONSTANTS
  MaxClicks = 2
  Visits <- MCVisits
  Accounts = {alice, bob}
  Payers = {alice, bob}
  Nobody = Nobody
  MaxStarts = 2
INVARIANTS
  ShownGoodsArePaid
  PaysWhatWasSigned
  SettlesItsOwnTerms
  DisplayIsCoherent
PROPERTIES
  EveryVisitConcludes
