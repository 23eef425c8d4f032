SPECIFICATION Spec
CONSTANTS
  None = None
  MaxChanges = 4
INVARIANTS TypeOK CredentialsAgree Disposable ContextSound
