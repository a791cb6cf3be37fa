---------------------------- MODULE MCSpeechEngine ----------------------------
EXTENDS SpeechEngine
MCConfigs == {[provider |-> "local", device |-> "gpu", compute |-> "int8"],
              [provider |-> "groq", device |-> "auto", compute |-> "int8"]}
===============================================================================
