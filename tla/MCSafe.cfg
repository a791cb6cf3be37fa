SPECIFICATION SafeSpec
CONSTANTS
  Processes = {p1, p2, p3}
  MaxFiles = 2
  Transcripts = {t1, t2}
  Threads = {h1, h2}
  MaxText = 1
  Callers = 2
  Nothing = Nothing
  Keyboards = {k1, k2}
  OneKeyboard = {k1}
  Modifiers = {ctrl}
  Plain = {space}
  MaxQueue = 1
  MaxPlugs = 1
  MaxRequests = 1
  NoEvent = NoEvent
  Providers = {groq}
  Recordings = {r1, r2}
  MaxKeys = 2
  MaxFaults = 2
  Fields = {hotkey, other}
  Hotkey = hotkey
  Legacy = {"model.groq", "refinement.groq", "refinement.lm_studio"}
  Updaters = {u1, u2}
  MaxValue = 2
  MaxFailures = 1
  Damaged = Damaged
  Sockets = {w1, w2}
  Emitters = {e1}
  MaxEvents = 3
  None = None
  Prompts = {q1, q2, q3}
  Protected = {q1}
  NoPrompt = NoPrompt
  MaxHandlers = 2
CHECK_DEADLOCK FALSE
INVARIANTS
  OneInstance
  OneTitlePerTranscript
  RecordingFollowsChord
  SecretsAreKept
  SettingsAgree
  DeliveredInOrder
  
