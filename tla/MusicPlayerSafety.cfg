\* One song, two more the user adds; a song of no length among them.
SPECIFICATION Spec
CONSTANTS
    MAX_SONGS = 3
    Duration = {0, 1}
    first_songs <- mc_first_songs
    Volume = {0, 101}
INVARIANT TrackOnSong
PROPERTIES
    OnlyRemovalOverruns
    PlaybackEnds
