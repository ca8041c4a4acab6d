\* A DELETE that is repeated under the account that signed in meanwhile.
SPECIFICATION Spec
CONSTANTS
    Users = {u1, u2}
    None = None
PROPERTIES ConfirmedBeforeCleanup
