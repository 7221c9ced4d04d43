CONSTANTS
  Variants = {"NotFound", "Paid"}
  ServerVariants <- MCServerVariants
  ClientVariants <- MCClientVariants
  MaxClient = 3
  DefaultStatus = 500
  None = None
SPECIFICATION Spec
INVARIANTS RoutedByCode DeclaredStatusSent
