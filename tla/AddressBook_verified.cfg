SPECIFICATION BookSpec
CONSTANTS
  Beneficiaries = {ben1}
  Numbers = {n1, n2}
  FirstNumber = n1
  Verifiers = {v1}
  PayoutRequests = {pr1}
  NoBeneficiary = NoBeneficiary
  MaxBookEdits = 4
INVARIANT VerifiedIsAboutThisNumber
CHECK_DEADLOCK FALSE
