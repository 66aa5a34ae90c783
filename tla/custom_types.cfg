CONSTANTS
    Names <- MCNames
    BuiltInTypeNames <- MCBuiltInTypeNames
    CustomNames <- MCCustomNames
    AbsoluteCppTypeName <- MCAbsoluteCppTypeName
    SystemHeaders <- MCSystemHeaders
    BuiltInConfig <- MCBuiltInConfig
    DefaultTemplates <- MCDefaultTemplates
    TemplateFiles <- MCTemplateFiles
    Bodies <- MCBodies
    Input <- MCInput
    Commands <- MCInput
    DependenciesCovered <- CoversDependencies
    TemplatesReadable <- HasTemplates
    Configs <- MCConfigs
    DescriptorsOf <- LoadCommand
    Outputs <- MCOutputs
    MaxRuns = 2
SPECIFICATION Spec
CHECK_DEADLOCK FALSE
PROPERTIES
    CustomTypesAccepted
