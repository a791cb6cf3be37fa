SPECIFICATION Spec
CONSTANTS
    Fields = {hotkey, other}
    Hotkey = hotkey
    Legacy = {"model.groq", "refinement.groq", "refinement.lm_studio"}
    Account <- MCAccount
    Updaters = {u1, u2}
    MaxValue = 2
    MaxFailures = 2
    Damaged = Damaged
    None = None
INVARIANTS KeysAreMovedAlways
