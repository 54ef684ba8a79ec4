\* A day of two hours of two minutes of three seconds, and the hour after it.
SPECIFICATION ClockSpec
CONSTANTS
    MAX_ALARMS = 2
    HOURS = 2
    MINUTES = 2
    SECONDS = 3
    Seconds = {1, 2}
    MaxLag = 2
    MaxClockTime = 18
    first_alarms <- mc_first_alarms
PROPERTIES
    NoneMissedWhileShown
    InterruptLeaves
