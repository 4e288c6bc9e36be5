CONSTANTS
  host = host
  port = port
  level = level
  v1 = v1
  v2 = v2
  Setting = {host, port, level}
  Section <- SectionOf
  Value = {v1, v2}
  Unset = Unset
  Default <- Defaults
  Options <- OptionOrder
SPECIFICATION Spec
INVARIANT OptionsObeyed
